---- MODULE Spec2Model ----
(***************************************************************************)
(* Model of the BRSR document-ingestion pipeline:                          *)
(*   app/routes/upload.py          upload_pdfs, _process_and_update        *)
(*   app/services/storage_service  _sync_upload_with_retries, upload_file  *)
(*   app/services/gemini_service   extract_section_a and its cleaners      *)
(*   app/services/processing.py    process_document_job, _update_doc       *)
(*                                                                         *)
(* Python strings are sequences of one-character strings, so that lower(), *)
(* strip(), endswith(), substring tests and the regular expressions are    *)
(* computed as the code computes them. A model response text may also hold *)
(* JSON lexemes: one element that stands for the text of a JSON document.  *)
(***************************************************************************)
EXTENDS Integers, Sequences, FiniteSets, TLC

(***************************************************************************)
(* Bounds of the model.                                                    *)
(***************************************************************************)
MaxRequests == 2
MaxFiles == 2
MaxDocs == 2
MaxExtractDocs == 1
MaxJobs == 1

(***************************************************************************)
(* Python string primitives.                                               *)
(***************************************************************************)
UpperChars == <<"A","B","C","D","E","F","G","H","I","J","K","L","M","N","O","P","Q","R","S","T","U","V","W","X","Y","Z">>
LowerChars == <<"a","b","c","d","e","f","g","h","i","j","k","l","m","n","o","p","q","r","s","t","u","v","w","x","y","z">>
DigitChars == <<"0","1","2","3","4","5","6","7","8","9">>

Range(f) == {f[i] : i \in DOMAIN f}

\* G(v) for the value v of e. TLC computes a LET definition or an argument
\* again wherever it is named; v is computed once.
with_value(e, G(_)) == CHOOSE r \in {G(v) : v \in {e}} : TRUE

char_lower(c) ==
  IF \E i \in 1..26 : UpperChars[i] = c
    THEN LowerChars[CHOOSE i \in 1..26 : UpperChars[i] = c]
    ELSE c

char_upper(c) ==
  IF \E i \in 1..26 : LowerChars[i] = c
    THEN UpperChars[CHOOSE i \in 1..26 : LowerChars[i] = c]
    ELSE c

str_lower(s) == [i \in 1..Len(s) |-> char_lower(s[i])]

str_upper(s) == [i \in 1..Len(s) |-> char_upper(s[i])]

IsSpace(c) == c \in {" ", "\n", "\t", "\r"}

IsWordChar(c) == c \in Range(UpperChars) \cup Range(LowerChars) \cup Range(DigitChars) \cup {"_"}

str_strip(s) ==
  IF \A i \in 1..Len(s) : IsSpace(s[i])
    THEN << >>
    ELSE LET a == CHOOSE i \in 1..Len(s) :
                    ~IsSpace(s[i]) /\ \A j \in 1..(i-1) : IsSpace(s[j])
             b == CHOOSE i \in 1..Len(s) :
                    ~IsSpace(s[i]) /\ \A j \in (i+1)..Len(s) : IsSpace(s[j])
         IN  SubSeq(s, a, b)

MatchAt(s, i, pat) ==
  /\ i >= 1
  /\ i + Len(pat) - 1 <= Len(s)
  /\ \A k \in 1..Len(pat) : s[i + k - 1] = pat[k]

str_contains(s, pat) == \E i \in 1..(Len(s) + 1) : MatchAt(s, i, pat)

str_endswith(s, suffix) == MatchAt(s, Len(s) - Len(suffix) + 1, suffix)

RECURSIVE str_join(_, _)
str_join(sep, parts) ==
  IF Len(parts) = 0 THEN << >>
  ELSE IF Len(parts) = 1 THEN parts[1]
  ELSE parts[1] \o sep \o str_join(sep, Tail(parts))

(***************************************************************************)
(* Python values: None, str, dict (a function from keys), list.            *)
(***************************************************************************)
Absent == [k |-> "absent"]
JNull == [k |-> "null"]
Str(s) == [k |-> "str", s |-> s]
\* a dict keeps its items in insertion order: items[i] = <<key, value>>
Dict(items) == [k |-> "dict", items |-> items]
List(xs) == [k |-> "list", xs |-> xs]

IsDict(v) == v.k = "dict"

dict_has(d, key) == \E i \in 1..Len(d.items) : d.items[i][1] = key

dict_get(d, key) ==
  IF dict_has(d, key)
    THEN d.items[CHOOSE i \in 1..Len(d.items) : d.items[i][1] = key][2]
    ELSE JNull

dict_set(d, key, v) ==
  IF dict_has(d, key)
    THEN Dict([i \in 1..Len(d.items) |->
                 IF d.items[i][1] = key THEN <<key, v>> ELSE d.items[i]])
    ELSE Dict(Append(d.items, <<key, v>>))

NoneText == <<"N","o","n","e">>

py_str(v) == IF v.k = "str" THEN v.s ELSE NoneText

(***************************************************************************)
(* GeminiService: response handling (gemini_service.py 80-169).            *)
(***************************************************************************)
\* The JSON documents a response text may hold, by lexeme, and the value
\* json.loads gives for each.
ListingText == <<"N","S","E",","," ","B","S","E">>

JsonDocs ==
  ("null" :> JNull) @@
  ("{holdings}" :> Dict(<<
     <<"entity_details", Dict(<< <<"cin", Str(<<"L","1">>)>>, <<"name", Str(<<"A","c","m","e">>)>> >>)>>,
     <<"holding_subsidiaries", List(<<
        Dict(<< <<"name", Str(<<"Z","e","d">>)>>, <<"type", Str(<<"S","u","b","s","i","d","i","a","r","y">>)>> >>),
        Dict(<< <<"name", Str(<<"Y","o","n">>)>>, <<"type", Str(<<"a","s","s","o","c","i","a","t","e">>)>> >>) >>)>>,
     <<"material_risks_opportunities", List(<<
        Dict(<< <<"material_issue", Str(<<"w","a","t","e","r">>)>> >>) >>)>> >>)) @@
  ("[]" :> List(<< >>)) @@
  ("{listing}" :> Dict(<< <<"entity_details",
                              Dict(<< <<"stock_exchange_listing", Str(ListingText)>> >>)>> >>))

\* a JSON string without escapes: quotes around characters that are no
\* quote, no backslash and no control character
is_json_string(body) ==
  /\ Len(body) >= 2
  /\ body[1] = "\"" /\ body[Len(body)] = "\""
  /\ \A i \in 2..(Len(body) - 1) : body[i] \notin {"\"", "\\", "\n", "\t", "\r"}

\* json.loads: surrounding whitespace is allowed, the rest must be one document.
json_loads(text) ==
  LET body == str_strip(text)
  IN  IF Len(body) = 1 /\ body[1] \in DOMAIN JsonDocs
        THEN [ok |-> TRUE, v |-> JsonDocs[body[1]]]
      ELSE IF is_json_string(body)
        THEN [ok |-> TRUE, v |-> Str(SubSeq(body, 2, Len(body) - 1))]
        ELSE [ok |-> FALSE, v |-> JNull]

_parse_or_raw(response_text) ==
  IF json_loads(response_text).ok
    THEN json_loads(response_text).v
    ELSE Dict(<< <<"raw_response", Str(response_text)>> >>)

\* The backquote character (a TLA+ string cannot hold it).
Backquote == "BACKQUOTE"

Fence == <<Backquote, Backquote, Backquote>>
JsonTag == <<"j","s","o","n">>

RECURSIVE skip_spaces(_, _)
skip_spaces(s, i) ==
  IF i <= Len(s) /\ IsSpace(s[i]) THEN skip_spaces(s, i + 1) ELSE i

\* re.sub of a fence, an optional json tag (any case) and the white space after
\* it, by the empty string, scanning from i (gemini_service.py line 94)
RECURSIVE sub_leading_fences(_, _)
sub_leading_fences(s, i) ==
  IF i > Len(s) THEN << >>
  ELSE IF MatchAt(s, i, Fence)
    THEN LET j == IF MatchAt(str_lower(s), i + 3, JsonTag) THEN i + 7 ELSE i + 3
         IN  sub_leading_fences(s, skip_spaces(s, j))
    ELSE <<s[i]>> \o sub_leading_fences(s, i + 1)

\* re.sub of white space and a fence at the end of the text, where the end is
\* the end of the string or just before a final newline (line 95)
sub_trailing_fence(s) ==
  LET ends == {j \in 1..Len(s) :
                 /\ MatchAt(s, j, Fence)
                 /\ \/ j + 2 = Len(s)
                    \/ j + 3 = Len(s) /\ s[Len(s)] = "\n"}
  IN  IF ends = {} THEN s
      ELSE LET j == CHOOSE x \in ends : TRUE
               i == CHOOSE x \in 1..j :
                      /\ \A y \in x..(j-1) : IsSpace(s[y])
                      /\ \A z \in 1..(x-1) : \E y \in z..(j-1) : ~IsSpace(s[y])
           IN  SubSeq(s, 1, i - 1) \o SubSeq(s, j + 3, Len(s))

\* (mutant) the raw text is kept as it came
_clean_gemini_response_kept(result) == result

_clean_gemini_response(result) ==
  IF IsDict(result) /\ dict_has(result, "raw_response")
    THEN LET raw == py_str(dict_get(result, "raw_response"))
             clean == str_strip(sub_trailing_fence(sub_leading_fences(raw, 1)))
         IN  IF json_loads(clean).ok
               THEN json_loads(clean).v
               ELSE Dict(<< <<"raw_response", Str(clean)>> >>)
    ELSE result

\* re.sub(pattern, "", s) for a literal pattern; word = TRUE adds \b on both sides
WordMatchAt(s, i, pat) ==
  /\ MatchAt(s, i, pat)
  /\ (i = 1 \/ ~IsWordChar(s[i - 1]))
  /\ (i + Len(pat) > Len(s) \/ ~IsWordChar(s[i + Len(pat)]))

RECURSIVE re_sub_remove(_, _, _, _)
re_sub_remove(pat, word, s, i) ==
  LET found == {j \in i..Len(s) :
                  IF word THEN WordMatchAt(s, j, pat) ELSE MatchAt(s, j, pat)}
  IN  IF found = {} THEN SubSeq(s, i, Len(s))
      ELSE with_value(CHOOSE j \in found : \A k \in found : j <= k, LAMBDA j :
             SubSeq(s, i, j - 1) \o re_sub_remove(pat, word, s, j + Len(pat)))

re_search_word(pat, s) == \E i \in 1..Len(s) : WordMatchAt(s, i, pat)

IsSeparator(c) == c \in {",", ";", "/", "\\", "\n"} \/ IsSpace(c)

\* re.split(r"[,;/\\\n]+|\s{2,}|\s", cleaned) followed by the loop that drops
\* the empty parts: the parts left are the maximal runs of non-separators.
RECURSIVE split_parts(_, _, _)
split_parts(s, i, cur) ==
  LET stops == {j \in i..Len(s) : IsSeparator(s[j])}
  IN  IF i > Len(s) THEN (IF cur = << >> THEN << >> ELSE <<cur>>)
      ELSE IF stops = {} THEN <<cur \o SubSeq(s, i, Len(s))>>
      ELSE with_value(CHOOSE j \in stops : \A k \in stops : j <= k, LAMBDA j :
             (IF cur \o SubSeq(s, i, j - 1) = << >> THEN << >>
                ELSE <<cur \o SubSeq(s, i, j - 1)>>)
             \o split_parts(s, j + 1, << >>))

BSE == <<"B","S","E">>
NSE == <<"N","S","E">>
BSENSE == <<"B","S","E","N","S","E">>

RECURSIVE other_tokens(_, _)
other_tokens(parts, others) ==
  IF parts = << >> THEN others
  ELSE LET token_up == str_upper(str_strip(parts[1]))
       IN  IF token_up \notin {BSE, NSE} /\ token_up \notin Range(others)
             THEN other_tokens(Tail(parts), Append(others, token_up))
             ELSE other_tokens(Tail(parts), others)

RECURSIVE append_others(_, _)
append_others(result_tokens, others) ==
  IF others = << >> THEN result_tokens
  ELSE IF others[1] # << >> /\ others[1] \notin Range(result_tokens)
    THEN append_others(Append(result_tokens, others[1]), Tail(others))
    ELSE append_others(result_tokens, Tail(others))

normalize_listing_text(raw) ==
  with_value(str_lower(str_strip(raw)), LAMBDA lowered :
    LET bse_present == re_search_word(<<"b","s","e">>, lowered)
                         \/ str_contains(lowered, <<"b","o","m","b","a","y">>)
        nse_present == re_search_word(<<"n","s","e">>, lowered)
                         \/ str_contains(lowered, <<"n","a","t","i","o","n","a","l"," ","s","t","o","c","k"," ","e","x","c","h","a","n","g","e">>)
        canonical == IF bse_present /\ nse_present THEN <<BSENSE>>
                     ELSE IF bse_present THEN <<BSE>>
                     ELSE IF nse_present THEN <<NSE>>
                     ELSE << >>
    IN  IF lowered = << >> THEN << >>
        ELSE
          with_value(re_sub_remove(<<"b","o","m","b","a","y"," ","s","t","o","c","k"," ","e","x","c","h","a","n","g","e">>, FALSE, lowered, 1), LAMBDA c1 :
          with_value(re_sub_remove(<<"b","s","e">>, TRUE, c1, 1), LAMBDA c2 :
          with_value(re_sub_remove(<<"n","a","t","i","o","n","a","l"," ","s","t","o","c","k"," ","e","x","c","h","a","n","g","e">>, FALSE, c2, 1), LAMBDA c3 :
          with_value(re_sub_remove(<<"n","s","e">>, TRUE, c3, 1), LAMBDA cleaned :
          with_value(other_tokens(split_parts(cleaned, 1, << >>), << >>), LAMBDA others :
            str_join(<<" ">>, append_others(canonical, others))))))))

_normalize_stock_exchange_listing(result) ==
  IF ~IsDict(result) THEN result
  ELSE LET ent == dict_get(result, "entity_details")
       IN  IF ~IsDict(ent) THEN result
           ELSE LET val == dict_get(ent, "stock_exchange_listing")
                    raw == IF val.k = "list"
                             THEN str_join(<<" ">>, [i \in 1..Len(val.xs) |-> py_str(val.xs[i])])
                           ELSE IF val.k = "dict"
                             THEN str_join(<<" ">>, [i \in 1..Len(val.items) |-> py_str(val.items[i][2])])
                           ELSE py_str(val)
                    ent2 == dict_set(ent, "stock_exchange_listing",
                                     Str(normalize_listing_text(raw)))
                IN  IF val = JNull THEN result
                    ELSE dict_set(result, "entity_details", ent2)

\* The three steps extract_section_a applies to a non-empty response text.
handle_response(response_text) ==
  _normalize_stock_exchange_listing(_clean_gemini_response(_parse_or_raw(response_text)))

retry_markers == <<
  <<"w","i","n","e","r","r","o","r"," ","1","0","0","5","4">>,
  <<"f","o","r","c","i","b","l","y"," ","c","l","o","s","e","d"," ","b","y"," ","t","h","e"," ","r","e","m","o","t","e"," ","h","o","s","t">>,
  <<"c","o","n","n","e","c","t","i","o","n"," ","r","e","s","e","t">>,
  <<"t","i","m","e","d"," ","o","u","t">>,
  <<"t","i","m","e","o","u","t">>,
  <<"t","e","m","p","o","r","a","r","i","l","y"," ","u","n","a","v","a","i","l","a","b","l","e">>,
  <<"s","e","r","v","i","c","e"," ","u","n","a","v","a","i","l","a","b","l","e">>,
  <<"t","o","o"," ","m","a","n","y"," ","r","e","q","u","e","s","t","s">>,
  <<"4","2","9">>,
  <<"5","0","3">>,
  <<"5","0","0">>
>>

_is_retryable_error(msg) ==
  \E m \in 1..Len(retry_markers) : str_contains(str_lower(msg), retry_markers[m])

(***************************************************************************)
(* storage_service.py: duplicate detection by the text of the error.       *)
(***************************************************************************)
_is_duplicate_error(msg) ==
  LET low == str_lower(msg)
  IN  \/ str_contains(low, <<"a","l","r","e","a","d","y"," ","e","x","i","s","t","s">>)
      \/ str_contains(low, <<"d","u","p","l","i","c","a","t","e">>)
      \/ str_contains(low, <<"r","e","s","o","u","r","c","e"," ","a","l","r","e","a","d","y"," ","e","x","i","s","t","s">>)
      \/ str_contains(low, <<"t","h","e"," ","r","e","s","o","u","r","c","e"," ","a","l","r","e","a","d","y"," ","e","x","i","s","t","s">>)
      \/ str_contains(low, <<"4","0","9">>)

(***************************************************************************)
(* GeminiService.extract_section_a (gemini_service.py 22-74) as a state    *)
(* machine over e = [pc, attempt, calls, sleeps, text, result, error]:     *)
(*   pc = "call"      about to make model call number attempt              *)
(*   pc = "sleep"     in the backoff sleep after a failed attempt          *)
(*   pc = "returned"  returned result                                      *)
(*   pc = "raised"    raised an exception whose str() is error             *)
(* calls counts the model calls made, sleeps lists the backoffs slept (ms), *)
(* errors lists what the failed attempts raised (the e of line 60), text   *)
(* is response.text of the call that returned.                             *)
(***************************************************************************)
max_attempts == 3
base_backoff_ms == 1500

RECURSIVE Pow2(_)
Pow2(n) == IF n <= 0 THEN 1 ELSE 2 * Pow2(n - 1)

EmptyBytesMsg == <<"E","m","p","t","y"," ","P","D","F"," ","b","y","t","e","s"," ","p","r","o","v","i","d","e","d">>
EmptyResponseMsg == <<"G","e","m","i","n","i"," ","r","e","t","u","r","n","e","d"," ","e","m","p","t","y"," ","r","e","s","p","o","n","s","e">>
ExtractionFailedPrefix == <<"G","e","m","i","n","i"," ","e","x","t","r","a","c","t","i","o","n"," ","f","a","i","l","e","d",":"," ">>

\* (mutant) the bytes are not tested
extract_begin_unchecked(file_bytes) ==
  [pc |-> "call", attempt |-> 1, calls |-> 0, sleeps |-> << >>,
   errors |-> << >>, text |-> << >>, result |-> Absent, error |-> << >>]

extract_begin(file_bytes) ==
  IF Len(file_bytes) = 0
    THEN [pc |-> "raised", attempt |-> 0, calls |-> 0, sleeps |-> << >>,
          errors |-> << >>, text |-> << >>, result |-> Absent, error |-> EmptyBytesMsg]
    ELSE [pc |-> "call", attempt |-> 1, calls |-> 0, sleeps |-> << >>,
          errors |-> << >>, text |-> << >>, result |-> Absent, error |-> << >>]

\* what one attempt raises: the SDK's error, or the empty-response error
attempt_error(outcome) ==
  IF outcome.kind = "error" THEN outcome.msg ELSE EmptyResponseMsg

attempt_fails(outcome) ==
  outcome.kind = "error" \/ Len(outcome.text) = 0

\* (mutants) the attempts are not capped; one attempt fewer; every failure is
\* retried
stop_retrying_uncapped(attempt, last_error) == ~_is_retryable_error(last_error)

stop_retrying_early(attempt, last_error) ==
  attempt >= max_attempts - 1 \/ ~_is_retryable_error(last_error)

stop_retrying_any_error(attempt, last_error) == attempt >= max_attempts

\* line 62: the loop is left after this failed attempt
stop_retrying(attempt, last_error) ==
  attempt >= max_attempts \/ ~_is_retryable_error(last_error)

\* line 64
backoff_ms(attempt) == base_backoff_ms * Pow2(attempt - 1)

\* line 74: str() of the RuntimeError raised after the loop
final_error(last_error) == ExtractionFailedPrefix \o last_error

\* one iteration of the for loop, given what the model call did
extract_call(e, outcome) ==
  IF ~attempt_fails(outcome)
    THEN [e EXCEPT !.pc = "returned", !.calls = @ + 1, !.text = outcome.text,
                   !.result = handle_response(outcome.text)]
  ELSE IF stop_retrying(e.attempt, attempt_error(outcome))
    THEN [e EXCEPT !.pc = "raised", !.calls = @ + 1,
                   !.errors = Append(@, attempt_error(outcome)),
                   !.error = final_error(attempt_error(outcome))]
  ELSE [e EXCEPT !.pc = "sleep", !.calls = @ + 1,
                 !.errors = Append(@, attempt_error(outcome)),
                 !.sleeps = Append(@, backoff_ms(e.attempt))]

\* the sleep is over: the next iteration
extract_wake(e) == [e EXCEPT !.pc = "call", !.attempt = @ + 1]

(***************************************************************************)
(* ExcelService (excel_service.py): the rows of a spreadsheet from the     *)
(* payloads. An operation that raises gives Raised, and Raised spreads to  *)
(* whatever is computed from it.                                           *)
(***************************************************************************)
Raised == [k |-> "raised"]

EmptyDict == Dict(<< >>)

\* d.get(key, default); AttributeError when d has no get
py_get(d, key, default) ==
  IF d.k # "dict" THEN Raised
  ELSE IF dict_has(d, key) THEN dict_get(d, key)
  ELSE default

\* the truth value of a Python value
py_truthy(v) ==
  CASE v.k = "str" -> Len(v.s) > 0
    [] v.k = "list" -> Len(v.xs) > 0
    [] v.k = "dict" -> Len(v.items) > 0
    [] OTHER -> FALSE

\* xs[0] if xs else {} (lines 83, 179); indexing a dict or a string by 0 gives
\* nothing that has a get
first_or_empty(xs) ==
  IF xs = Raised THEN Raised
  ELSE IF ~py_truthy(xs) THEN EmptyDict
  ELSE IF xs.k = "list" THEN xs.xs[1]
  ELSE Raised

\* lines 25-30
safe_get(d, k1, k2) ==
  LET d1 == IF d = JNull THEN JNull ELSE py_get(d, k1, JNull)
  IN  IF d1 = JNull THEN JNull ELSE py_get(d1, k2, JNull)

\* the table of lines 37-51
group_entity_mapping == <<
  <<<<"a","s","s","o","c","i","a","t","e">>,
    <<"A","s","s","o","c","i","a","t","e"," ","C","o","m","p","a","n","y">>>>,
  <<<<"a","s","s","o","c","i","a","t","e"," ","c","o","m","p","a","n","y">>,
    <<"A","s","s","o","c","i","a","t","e"," ","C","o","m","p","a","n","y">>>>,
  <<<<"j","o","i","n","t"," ","v","e","n","t","u","r","e">>,
    <<"J","o","i","n","t"," ","V","e","n","t","u","r","e">>>>,
  <<<<"s","u","b","s","i","d","i","a","r","y">>,
    <<"S","u","b","s","i","d","i","a","r","y"," ","C","o","m","p","a","n","y">>>>,
  <<<<"s","u","b","s","i","d","i","a","r","y"," ","c","o","m","p","a","n","y">>,
    <<"S","u","b","s","i","d","i","a","r","y"," ","C","o","m","p","a","n","y">>>>,
  <<<<"m","a","t","e","r","i","a","l"," ","w","h","o","l","l","y"," ","o","w","n","e","d"," ","s","u","b","s","i","d","i","a","r","y">>,
    <<"W","h","o","l","l","y"," ","O","w","n","e","d"," ","S","u","b","s","i","d","i","a","r","y">>>>,
  <<<<"s","t","e","p"," ","d","o","w","n"," ","w","h","o","l","l","y"," ","o","w","n","e","d"," ","s","u","b","s","i","d","i","a","r","y">>,
    <<"W","h","o","l","l","y"," ","O","w","n","e","d"," ","S","u","b","s","i","d","i","a","r","y">>>>,
  <<<<"w","h","o","l","l","y"," ","o","w","n","e","d"," ","s","u","b","s","i","d","i","a","r","y">>,
    <<"W","h","o","l","l","y"," ","O","w","n","e","d"," ","S","u","b","s","i","d","i","a","r","y">>>>,
  <<<<"h","o","l","d","i","n","g">>,
    <<"H","o","l","d","i","n","g"," ","C","o","m","p","a","n","y">>>>,
  <<<<"i","n","t","e","r","m","e","d","i","a","r","y"," ","h","o","l","d","i","n","g">>,
    <<"I","n","t","e","r","m","e","d","i","a","r","y"," ","H","o","l","d","i","n","g"," ","C","o","m","p","a","n","y">>>>,
  <<<<"u","l","t","i","m","a","t","e"," ","h","o","l","d","i","n","g">>,
    <<"U","l","t","i","m","a","t","e"," ","H","o","l","d","i","n","g"," ","C","o","m","p","a","n","y">>>>,
  <<<<"s","t","e","p","-","d","o","w","n"," ","s","u","b","s","i","d","i","a","r","y">>,
    <<"S","t","e","p","-","D","o","w","n"," ","S","u","b","s","i","d","i","a","r","y">>>>,
  <<<<"s","u","b","s","i","d","i","a","r","y"," ","(","i","n","c","o","r","p","o","r","a","t","e","d"," ","u","n","d","e","r"," ","s","e","c","t","i","o","n"," ","8"," ","o","f"," ","t","h","e"," ","c","o","m","p","a","n","i","e","s"," ","a","c","t",","," ","2","0","1","3",")">>,
    <<"S","u","b","s","i","d","i","a","r","y"," ","C","o","m","p","a","n","y">>>> >>

\* lines 33-68; raw.strip() raises when raw is truthy and not a string
map_group_entity_type(raw) ==
  IF raw = Raised THEN Raised
  ELSE IF ~py_truthy(raw) THEN Str(<< >>)
  ELSE IF raw.k # "str" THEN Raised
  ELSE LET key == str_lower(str_strip(raw.s))
           mapped == {i \in 1..Len(group_entity_mapping) : group_entity_mapping[i][1] = key}
       IN  IF mapped # {} THEN Str(group_entity_mapping[CHOOSE i \in mapped : TRUE][2])
           ELSE IF str_contains(key, <<"w","h","o","l","l","y"," ","o","w","n","e","d">>) THEN Str(<<"W","h","o","l","l","y"," ","O","w","n","e","d"," ","S","u","b","s","i","d","i","a","r","y">>)
           ELSE IF str_contains(key, <<"u","l","t","i","m","a","t","e"," ","h","o","l","d","i","n","g">>) THEN Str(<<"U","l","t","i","m","a","t","e"," ","H","o","l","d","i","n","g"," ","C","o","m","p","a","n","y">>)
           ELSE IF str_contains(key, <<"i","n","t","e","r","m","e","d","i","a","r","y">>) /\ str_contains(key, <<"h","o","l","d","i","n","g">>)
             THEN Str(<<"I","n","t","e","r","m","e","d","i","a","r","y"," ","H","o","l","d","i","n","g"," ","C","o","m","p","a","n","y">>)
           ELSE IF str_contains(key, <<"a","s","s","o","c","i","a","t","e">>) THEN Str(<<"A","s","s","o","c","i","a","t","e"," ","C","o","m","p","a","n","y">>)
           ELSE IF str_contains(key, <<"j","o","i","n","t">>) /\ str_contains(key, <<"v","e","n","t","u","r","e">>)
             THEN Str(<<"J","o","i","n","t"," ","V","e","n","t","u","r","e">>)
           ELSE IF key = <<"h","o","l","d","i","n","g">> \/ str_endswith(key, <<" ","h","o","l","d","i","n","g">>) THEN Str(<<"H","o","l","d","i","n","g"," ","C","o","m","p","a","n","y">>)
           ELSE IF str_contains(key, <<"s","u","b","s","i","d","i","a","r","y">>) THEN Str(<<"S","u","b","s","i","d","i","a","r","y"," ","C","o","m","p","a","n","y">>)
           ELSE Str(str_strip(raw.s))

\* the columns of build_base_row in the order of lines 87-218: a blank, a get
\* on one of the objects of lines 72-83, 130, 141, 152, 179, 193, 202, 211,
\* a safe_get on turnover_rate, or the mapped type of the first holding
BaseColumns == <<
  [col |-> "Sector", kind |-> "get", obj |-> "entity", key |-> "sector"],
  [col |-> "1. Corporate Identity Number (CIN)", kind |-> "get", obj |-> "entity", key |-> "cin"],
  [col |-> "2. Name of Listed Entity", kind |-> "get", obj |-> "entity", key |-> "name"],
  [col |-> "3. Year of Incorporation", kind |-> "get", obj |-> "entity", key |-> "year_of_incorporation"],
  [col |-> "4. Registered office address", kind |-> "get", obj |-> "entity", key |-> "registered_office_address"],
  [col |-> "5. Corporate office address", kind |-> "get", obj |-> "entity", key |-> "corporate_office_address"],
  [col |-> "6. Email ID", kind |-> "get", obj |-> "entity", key |-> "email"],
  [col |-> "7. Telephone number", kind |-> "get", obj |-> "entity", key |-> "telephone"],
  [col |-> "8. Website", kind |-> "get", obj |-> "entity", key |-> "website"],
  [col |-> "9. Financial Year", kind |-> "get", obj |-> "entity", key |-> "financial_year"],
  [col |-> "10. Stock Exchange Listing", kind |-> "get", obj |-> "entity", key |-> "stock_exchange_listing"],
  [col |-> "11. Paid-up Capital", kind |-> "get", obj |-> "entity", key |-> "paid_up_capital"],
  [col |-> "12. Contact Person Details", kind |-> "get", obj |-> "entity", key |-> "contact_person_details"],
  [col |-> "13. Reporting boundary", kind |-> "get", obj |-> "entity", key |-> "reporting_boundary"],
  [col |-> "14. Name of assurance provider", kind |-> "get", obj |-> "entity", key |-> "assurance_provider"],
  [col |-> "15. Type of assurance", kind |-> "get", obj |-> "entity", key |-> "assurance_type"],
  [col |-> "16. Business Activity", kind |-> "blank", obj |-> "", key |-> ""],
  [col |-> "16.a Main Business Activity", kind |-> "get", obj |-> "business", key |-> "main_activity_description"],
  [col |-> "16.b Description of Business Activity", kind |-> "get", obj |-> "business", key |-> "description"],
  [col |-> "16.c % of Turnover", kind |-> "get", obj |-> "business", key |-> "percent_of_turnover"],
  [col |-> "17. Products/Services", kind |-> "blank", obj |-> "", key |-> ""],
  [col |-> "17.a Product/Service", kind |-> "get", obj |-> "product", key |-> "product_service"],
  [col |-> "17.b NIC Code", kind |-> "get", obj |-> "product", key |-> "nic_code"],
  [col |-> "17.c % Turnover", kind |-> "get", obj |-> "product", key |-> "percent_of_total_turnover"],
  [col |-> "18. Number of Locations", kind |-> "blank", obj |-> "", key |-> ""],
  [col |-> "18.a National Plants", kind |-> "get", obj |-> "locations", key |-> "national_plants"],
  [col |-> "18.b National Offices", kind |-> "get", obj |-> "locations", key |-> "national_offices"],
  [col |-> "18.c International Plants", kind |-> "get", obj |-> "locations", key |-> "international_plants"],
  [col |-> "18.d International Offices", kind |-> "get", obj |-> "locations", key |-> "international_offices"],
  [col |-> "19.a International Countries", kind |-> "get", obj |-> "markets", key |-> "international_countries"],
  [col |-> "19.b Export %", kind |-> "get", obj |-> "markets", key |-> "export_percent"],
  [col |-> "19.c Customers Brief", kind |-> "get", obj |-> "markets", key |-> "customers_brief"],
  [col |-> "20. Employees and Workers", kind |-> "blank", obj |-> "", key |-> ""],
  [col |-> "20.A Total Permanent Employees", kind |-> "get", obj |-> "emp", key |-> "total_permanent"],
  [col |-> "20.A Permanent Male Employees", kind |-> "get", obj |-> "emp", key |-> "permanent_male"],
  [col |-> "20.A Permanent Female Employees", kind |-> "get", obj |-> "emp", key |-> "permanent_female"],
  [col |-> "20.A Other than Permanent", kind |-> "get", obj |-> "emp", key |-> "other_than_permanent"],
  [col |-> "20.A Other Male", kind |-> "get", obj |-> "emp", key |-> "other_than_permanent_male"],
  [col |-> "20.A Other Female", kind |-> "get", obj |-> "emp", key |-> "other_than_permanent_female"],
  [col |-> "20.A Total Employees", kind |-> "get", obj |-> "emp", key |-> "total_employees"],
  [col |-> "20.A Total Male", kind |-> "get", obj |-> "emp", key |-> "total_male"],
  [col |-> "20.A Total Female", kind |-> "get", obj |-> "emp", key |-> "total_female"],
  [col |-> "20.B Permanent Workers", kind |-> "get", obj |-> "workers", key |-> "total_permanent"],
  [col |-> "20.B Permanent Male Workers", kind |-> "get", obj |-> "workers", key |-> "permanent_male"],
  [col |-> "20.B Permanent Female Workers", kind |-> "get", obj |-> "workers", key |-> "permanent_female"],
  [col |-> "20.B Other Workers", kind |-> "get", obj |-> "workers", key |-> "other_than_permanent"],
  [col |-> "20.B Other Male Workers", kind |-> "get", obj |-> "workers", key |-> "other_than_permanent_male"],
  [col |-> "20.B Other Female Workers", kind |-> "get", obj |-> "workers", key |-> "other_than_permanent_female"],
  [col |-> "20.B Total Workers", kind |-> "get", obj |-> "workers", key |-> "total_workers"],
  [col |-> "20.B Total Male Workers", kind |-> "get", obj |-> "workers", key |-> "total_male"],
  [col |-> "20.B Total Female Workers", kind |-> "get", obj |-> "workers", key |-> "total_female"],
  [col |-> "20.C DA Employees Total Permanent", kind |-> "get", obj |-> "da_emp", key |-> "total_permanent"],
  [col |-> "20.C DA Permanent Male", kind |-> "get", obj |-> "da_emp", key |-> "permanent_male"],
  [col |-> "20.C DA Permanent Female", kind |-> "get", obj |-> "da_emp", key |-> "permanent_female"],
  [col |-> "20.C DA Other", kind |-> "get", obj |-> "da_emp", key |-> "other_than_permanent"],
  [col |-> "20.C DA Other Male", kind |-> "get", obj |-> "da_emp", key |-> "other_than_permanent_male"],
  [col |-> "20.C DA Other Female", kind |-> "get", obj |-> "da_emp", key |-> "other_than_permanent_female"],
  [col |-> "20.C DA Total Employees", kind |-> "get", obj |-> "da_emp", key |-> "total_employees"],
  [col |-> "21. Women Representation", kind |-> "blank", obj |-> "", key |-> ""],
  [col |-> "21.a Board Total", kind |-> "get", obj |-> "women", key |-> "board_of_directors_total"],
  [col |-> "21.b Board Women", kind |-> "get", obj |-> "women", key |-> "board_of_directors_women"],
  [col |-> "21.c KMP Total", kind |-> "get", obj |-> "women", key |-> "kmp_total"],
  [col |-> "21.d KMP Women", kind |-> "get", obj |-> "women", key |-> "kmp_women"],
  [col |-> "22. Turnover Rate", kind |-> "blank", obj |-> "", key |-> ""],
  [col |-> "22.a Emp Male", kind |-> "safe_get", obj |-> "permanent_employees", key |-> "male"],
  [col |-> "22.b Emp Female", kind |-> "safe_get", obj |-> "permanent_employees", key |-> "female"],
  [col |-> "22.c Emp Total", kind |-> "safe_get", obj |-> "permanent_employees", key |-> "total"],
  [col |-> "22.d Worker Male", kind |-> "safe_get", obj |-> "permanent_workers", key |-> "male"],
  [col |-> "22.e Worker Female", kind |-> "safe_get", obj |-> "permanent_workers", key |-> "female"],
  [col |-> "22.f Worker Total", kind |-> "safe_get", obj |-> "permanent_workers", key |-> "total"],
  [col |-> "23. Group Entity", kind |-> "get", obj |-> "first_holding", key |-> "name"],
  [col |-> "23. Group Entity Type", kind |-> "get", obj |-> "first_holding", key |-> "type"],
  [col |-> "23. Mapped Group Entity Type", kind |-> "mapped", obj |-> "first_holding", key |-> "type"],
  [col |-> "23. % Shares", kind |-> "get", obj |-> "first_holding", key |-> "percent_shares_held"],
  [col |-> "24.a CSR Applicable", kind |-> "get", obj |-> "csr", key |-> "is_applicable"],
  [col |-> "24.b CSR Turnover", kind |-> "get", obj |-> "csr", key |-> "turnover_inr_cr"],
  [col |-> "24.c CSR Net Worth", kind |-> "get", obj |-> "csr", key |-> "net_worth_inr_cr"],
  [col |-> "25. Grievance Redressal", kind |-> "blank", obj |-> "", key |-> ""],
  [col |-> "25.a Communities", kind |-> "get", obj |-> "mech", key |-> "communities"],
  [col |-> "25.a Investors (other than shareholders)", kind |-> "get", obj |-> "mech", key |-> "investors_other_than_shareholders"],
  [col |-> "25.a Shareholders", kind |-> "get", obj |-> "mech", key |-> "shareholders"],
  [col |-> "25.a Employees and workers", kind |-> "get", obj |-> "mech", key |-> "employees_and_workers"],
  [col |-> "25.a Customers", kind |-> "get", obj |-> "mech", key |-> "customers"],
  [col |-> "25.a Value Chain Partners", kind |-> "get", obj |-> "mech", key |-> "value_chain_partners"],
  [col |-> "25.a Others", kind |-> "get", obj |-> "mech", key |-> "other_please_specify"],
  [col |-> "25.b Communities", kind |-> "get", obj |-> "filed", key |-> "communities"],
  [col |-> "25.b Investors (other than shareholders)", kind |-> "get", obj |-> "filed", key |-> "investors_other_than_shareholders"],
  [col |-> "25.b Shareholders", kind |-> "get", obj |-> "filed", key |-> "shareholders"],
  [col |-> "25.b Employees and workers", kind |-> "get", obj |-> "filed", key |-> "employees_and_workers"],
  [col |-> "25.b Customers", kind |-> "get", obj |-> "filed", key |-> "customers"],
  [col |-> "25.b Value Chain Partners", kind |-> "get", obj |-> "filed", key |-> "value_chain_partners"],
  [col |-> "25.b Others", kind |-> "get", obj |-> "filed", key |-> "other_please_specify"],
  [col |-> "25.c Communities", kind |-> "get", obj |-> "pending", key |-> "communities"],
  [col |-> "25.c Investors (other than shareholders)", kind |-> "get", obj |-> "pending", key |-> "investors_other_than_shareholders"],
  [col |-> "25.c Shareholders", kind |-> "get", obj |-> "pending", key |-> "shareholders"],
  [col |-> "25.c Employees and workers", kind |-> "get", obj |-> "pending", key |-> "employees_and_workers"],
  [col |-> "25.c Customers", kind |-> "get", obj |-> "pending", key |-> "customers"],
  [col |-> "25.c Value Chain Partners", kind |-> "get", obj |-> "pending", key |-> "value_chain_partners"],
  [col |-> "25.c Others", kind |-> "get", obj |-> "pending", key |-> "other_please_specify"] >>

\* lines 71-220: the row as a dict, column by column; objs are the objects
\* the cells are read from
build_base_row(data) ==
  with_value(
      LET employees == py_get(data, "employees", EmptyDict)
          grievances == py_get(data, "grievances", EmptyDict)
      IN  [entity |-> py_get(data, "entity_details", EmptyDict),
           business |-> py_get(data, "business_activity", EmptyDict),
           product |-> first_or_empty(py_get(data, "products_services", List(<< >>))),
           locations |-> py_get(data, "locations", EmptyDict),
           markets |-> py_get(data, "markets_served", EmptyDict),
           emp |-> py_get(employees, "employees", EmptyDict),
           workers |-> py_get(employees, "workers", EmptyDict),
           da_emp |-> py_get(employees, "differently_abled_employees", EmptyDict),
           women |-> py_get(data, "women_representation", EmptyDict),
           turnover |-> py_get(data, "turnover_rate", EmptyDict),
           csr |-> py_get(data, "csr", EmptyDict),
           mech |-> py_get(grievances, "mechanism_in_place", EmptyDict),
           filed |-> py_get(grievances, "filed", EmptyDict),
           pending |-> py_get(grievances, "pending", EmptyDict),
           first_holding |-> first_or_empty(py_get(data, "holding_subsidiaries", List(<< >>)))],
    LAMBDA objs :
      LET base_cell(c) ==
          CASE c.kind = "blank" -> Str(<< >>)
            [] c.kind = "get" -> py_get(objs[c.obj], c.key, JNull)
            [] c.kind = "safe_get" -> safe_get(objs.turnover, c.obj, c.key)
            [] c.kind = "mapped" -> map_group_entity_type(py_get(objs.first_holding, c.key, JNull))
      IN  Dict([i \in 1..Len(BaseColumns) |->
                  <<BaseColumns[i].col, base_cell(BaseColumns[i])>>]))

\* some cell of the row could not be computed: build_base_row raised
row_raised(row) == \E i \in 1..Len(row.items) : row.items[i][2] = Raised

\* the characters by code point, for the comparison of strings
Ascii == <<" ","!","\"","#","$","%","&","'","(",")","*","+",",","-",".","/","0","1","2","3","4","5","6","7","8","9",":",";","<","=",">","?","@","A","B","C","D","E","F","G","H","I","J","K","L","M","N","O","P","Q","R","S","T","U","V","W","X","Y","Z","[","\\","]","^","_",Backquote,"a","b","c","d","e","f","g","h","i","j","k","l","m","n","o","p","q","r","s","t","u","v","w","x","y","z","{","|","}","~">>

\* a < b for two strings
RECURSIVE str_less(_, _)
str_less(a, b) ==
  IF Len(b) = 0 THEN FALSE
  ELSE IF Len(a) = 0 THEN TRUE
  ELSE IF a[1] = b[1] THEN str_less(Tail(a), Tail(b))
  ELSE LET char_code(c) == CHOOSE i \in 1..Len(Ascii) : Ascii[i] = c
       IN  char_code(a[1]) < char_code(b[1])

\* lambda x: x.get("type", ""), line 224
holding_key(x) == py_get(x, "type", Str(<< >>))

\* a stable sort by holding_key: the last element is put after the elements
\* of the sorted rest whose key is not greater
RECURSIVE sort_holdings(_)
sort_holdings(xs) ==
  IF Len(xs) = 0 THEN << >>
  ELSE with_value(sort_holdings(SubSeq(xs, 1, Len(xs) - 1)), LAMBDA sorted :
         LET x == xs[Len(xs)]
             later == {i \in 1..Len(sorted) :
                         str_less(holding_key(x).s, holding_key(sorted[i]).s)}
             at == IF later = {} THEN Len(sorted) + 1
                   ELSE CHOOSE i \in later : \A j \in later : i <= j
         IN  SubSeq(sorted, 1, at - 1) \o <<x>> \o SubSeq(sorted, at, Len(sorted)))

\* (mutant) the holdings are taken in the order of the payload
sorted_holdings_unsorted(data) ==
  with_value(py_get(data, "holding_subsidiaries", List(<< >>)), LAMBDA h :
    IF h.k = "list" THEN [ok |-> TRUE, xs |-> h.xs] ELSE [ok |-> FALSE, xs |-> << >>])

\* sorted(data.get("holding_subsidiaries", []), key=...), line 224. It raises
\* for None, for a non-empty string or dict (their elements have no get), for
\* an element that is no dict, and when two keys are compared that are not
\* both strings.
sorted_holdings(data) ==
  with_value(py_get(data, "holding_subsidiaries", List(<< >>)), LAMBDA h :
    IF h.k = "list"
      THEN IF \E i \in 1..Len(h.xs) : holding_key(h.xs[i]) = Raised
             THEN [ok |-> FALSE, xs |-> << >>]
           ELSE IF Len(h.xs) >= 2 /\ \E i \in 1..Len(h.xs) : holding_key(h.xs[i]).k # "str"
             THEN [ok |-> FALSE, xs |-> << >>]
           ELSE IF Len(h.xs) >= 2
             THEN [ok |-> TRUE, xs |-> sort_holdings(h.xs)]
           ELSE [ok |-> TRUE, xs |-> h.xs]
    ELSE IF h.k \in {"dict", "str"} /\ ~py_truthy(h)
      THEN [ok |-> TRUE, xs |-> << >>]
    ELSE [ok |-> FALSE, xs |-> << >>])

\* the loop of lines 233-240 from element i on
RECURSIVE list_items(_, _, _)
list_items(els, category_name, i) ==
  IF i > Len(els) THEN << >>
  ELSE with_value(<<els[i], list_items(els, category_name, i + 1)>>, LAMBDA v :
         LET el == v[1]
             rest == v[2]
         IN  IF el.k # "dict" THEN rest
             ELSE IF dict_has(el, category_name) /\ dict_get(el, category_name).k = "list"
               THEN dict_get(el, category_name).xs \o rest
             ELSE IF \E k \in {"material_issue", "rationale", "risk_or_opportunity"} : dict_has(el, k)
               THEN <<el>> \o rest
             ELSE rest)

\* lines 228-242; a truthy value that is no list is iterated into things that
\* have no get, so the loop of line 245 raises
_items_for_category(risks_obj, category_name) ==
  IF risks_obj.k = "dict"
    THEN with_value(py_get(risks_obj, category_name, List(<< >>)), LAMBDA v :
           IF ~py_truthy(v) THEN [ok |-> TRUE, xs |-> << >>]
           ELSE IF v.k = "list" THEN [ok |-> TRUE, xs |-> v.xs]
           ELSE [ok |-> FALSE, xs |-> << >>])
  ELSE IF risks_obj.k = "list"
    THEN [ok |-> TRUE, xs |-> list_items(risks_obj.xs, category_name, 1)]
  ELSE [ok |-> TRUE, xs |-> << >>]

\* lines 244-253 for the categories from c on; risk_row is the dict of
\* lines 246-253
RECURSIVE risk_rows(_, _)
risk_rows(risks, c) ==
  LET Categories ==
        <<
        [key |-> "environment", name |-> <<"e","n","v","i","r","o","n","m","e","n","t">>],
        [key |-> "social", name |-> <<"s","o","c","i","a","l">>],
        [key |-> "governance", name |-> <<"g","o","v","e","r","n","a","n","c","e">>] >>
      risk_row(category, item) ==
        Dict(<< <<"26. Category", \* category.capitalize()
                  Str(<<char_upper(category.name[1])>> \o str_lower(Tail(category.name)))>>,
                <<"26. Material Issue", py_get(item, "material_issue", JNull)>>,
                <<"26. Risk/Opportunity", py_get(item, "risk_or_opportunity", JNull)>>,
                <<"26. Rationale", py_get(item, "rationale", JNull)>>,
                <<"26. Financial Impact", py_get(item, "financial_implications", JNull)>>,
                <<"26. Approach to Adapt/Mitigate",
                  py_get(item, "approach_to_adapt_mitigate", JNull)>> >>)
  IN  IF c > Len(Categories) THEN [ok |-> TRUE, xs |-> << >>]
      ELSE with_value(<<_items_for_category(risks, Categories[c].key), risk_rows(risks, c + 1)>>,
                      LAMBDA v :
             [ok |-> v[1].ok /\ v[2].ok,
              xs |-> [i \in 1..Len(v[1].xs) |-> risk_row(Categories[c], v[1].xs[i])]
                       \o v[2].xs])

\* dict.update: the keys d has keep their place, the others follow
dict_update(d0, other0) ==
  with_value(<<d0, other0>>, LAMBDA v :
    LET d == v[1]
        other == v[2]
        is_new(item) == ~dict_has(d, item[1])
    IN  Dict([i \in 1..Len(d.items) |->
                IF dict_has(other, d.items[i][1])
                  THEN <<d.items[i][1], dict_get(other, d.items[i][1])>>
                  ELSE d.items[i]]
             \o SelectSeq(other.items, is_new)))

\* (mutant) every row starts as a copy of the base row
expanded_row_copied(base_row, holdings, rrows, i) ==
  with_value(IF i < Len(holdings)
               THEN dict_update(base_row,
                      Dict(<< <<"23. Group Entity", py_get(holdings[i + 1], "name", JNull)>>,
                              <<"23. Group Entity Type", py_get(holdings[i + 1], "type", JNull)>>,
                              <<"23. Mapped Group Entity Type",
                                map_group_entity_type(py_get(holdings[i + 1], "type", JNull))>>,
                              <<"23. % Shares",
                                py_get(holdings[i + 1], "percent_shares_held", JNull)>> >>))
               ELSE base_row, LAMBDA held :
    IF i < Len(rrows) THEN dict_update(held, rrows[i + 1]) ELSE held)

\* lines 258-276: row number i (from 0). A later row starts blank but for
\* the CIN and the name (lines 260-262); holding_cells are the assignments of
\* lines 265-270.
expanded_row(base_row, holdings, rrows, i) ==
  LET blank_row ==
        Dict([j \in 1..Len(base_row.items) |->
                <<base_row.items[j][1],
                  IF base_row.items[j][1] \in {"1. Corporate Identity Number (CIN)",
                                                "2. Name of Listed Entity"}
                    THEN base_row.items[j][2] ELSE Str(<< >>)>>])
      holding_cells(h) ==
        Dict(<< <<"23. Group Entity", py_get(h, "name", JNull)>>,
                <<"23. Group Entity Type", py_get(h, "type", JNull)>>,
                <<"23. Mapped Group Entity Type",
                  map_group_entity_type(py_get(h, "type", JNull))>>,
                <<"23. % Shares", py_get(h, "percent_shares_held", JNull)>> >>)
  IN  with_value(IF i = 0 THEN base_row ELSE blank_row, LAMBDA start :
        with_value(IF i < Len(holdings)
                     THEN dict_update(start, holding_cells(holdings[i + 1]))
                     ELSE start, LAMBDA held :
          IF i < Len(rrows) THEN dict_update(held, rrows[i + 1]) ELSE held))

\* lines 223-278
expand_all(data, base_row0) ==
  with_value(<<base_row0, sorted_holdings(data),
               risk_rows(py_get(data, "material_risks_opportunities", EmptyDict), 1)>>,
             LAMBDA v :
    LET base_row == v[1]
        holdings == v[2]
        rrows == v[3]
        Max(a, b) == IF a >= b THEN a ELSE b
        max_rows == Max(1, Max(Len(holdings.xs), Len(rrows.xs)))
    IN  IF ~holdings.ok \/ ~rrows.ok
           \/ \E i \in 1..Len(rrows.xs) : row_raised(rrows.xs[i])
          THEN [ok |-> FALSE, rows |-> << >>]
        ELSE with_value([i \in 1..max_rows |->
                           expanded_row(base_row, holdings.xs, rrows.xs, i - 1)],
                        LAMBDA final_rows :
               [ok |-> \A i \in 1..max_rows : ~row_raised(final_rows[i]),
                rows |-> final_rows]))

\* lines 354-358 for the payloads from i on
RECURSIVE all_rows(_, _)
all_rows(json_docs, i) ==
  IF i > Len(json_docs) THEN [ok |-> TRUE, rows |-> << >>]
  ELSE with_value(build_base_row(json_docs[i]), LAMBDA base :
         IF row_raised(base) THEN [ok |-> FALSE, rows |-> << >>]
         ELSE with_value(<<expand_all(json_docs[i], base), all_rows(json_docs, i + 1)>>,
                         LAMBDA v :
                IF ~v[1].ok \/ ~v[2].ok
                  THEN [ok |-> FALSE, rows |-> << >>]
                  ELSE [ok |-> TRUE, rows |-> v[1].rows \o v[2].rows]))

\* ExcelService.generate_excel, lines 348-365: the rows of the sheet in their
\* order, or the call raises; openpyxl refuses to write a dict or a list
\* into a cell
ExcelService_generate_excel(json_docs0) ==
  with_value(json_docs0, LAMBDA json_docs :
    with_value(all_rows(json_docs, 1), LAMBDA built :
      IF ~built.ok THEN [ok |-> FALSE, rows |-> << >>]
      ELSE IF \E r \in 1..Len(built.rows) :
                \E c \in 1..Len(built.rows[r].items) : built.rows[r].items[c][2].k \in {"dict", "list"}
        THEN [ok |-> FALSE, rows |-> << >>]
      ELSE [ok |-> TRUE, rows |-> built.rows]))

(***************************************************************************)
(* The inputs of the model.                                                *)
(***************************************************************************)
Owners == { <<"u","1">>, <<"u","2">> }

Data == <<1>>
PdfExt == <<".","p","d","f">>
Unknown == <<"u","n","k","n","o","w","n">>

\* a valid file (its name needs strip() and lower()), a file with another
\* extension, a file with no bytes, a file with no name
ValidFile == [filename |-> <<" ","a",".","P","D","F">>, content |-> Data]

Files == {
  ValidFile,
  [filename |-> <<"a",".","t","x","t">>, content |-> Data],
  [filename |-> <<"a",".","p","d","f">>, content |-> << >>],
  [filename |-> << >>, content |-> Data] }

Batches == UNION { [1..n -> Files] : n \in 0..MaxFiles }

OneFileBatches == { <<ValidFile>> }

\* what a model call does: a response text, or an error of the SDK
FewOutcomes == {
  [kind |-> "text", text |-> <<"{listing}">>],
  [kind |-> "error", msg |-> <<"5","0","3"," ","U","N","A","V","A","I","L","A","B","L","E">>] }

ModelOutcomes == {
  [kind |-> "text", text |-> <<"{listing}">>],
  [kind |-> "text", text |-> <<"null">>],
  [kind |-> "text", text |-> <<"o","o","p","s">>],
  [kind |-> "text", text |-> <<"BACKQUOTE","BACKQUOTE","BACKQUOTE","j","s","o","n","\n",
                               "o","o","p","s","\n","BACKQUOTE","BACKQUOTE","BACKQUOTE">>],
  [kind |-> "text", text |-> << >>],
  [kind |-> "error", msg |-> <<"5","0","3"," ","U","N","A","V","A","I","L","A","B","L","E">>],
  [kind |-> "error", msg |-> <<"5","0","3"," ","b","u","s","y">>],
  [kind |-> "error", msg |-> <<"R","e","a","d"," ","t","i","m","e","d"," ","o","u","t">>],
  [kind |-> "error", msg |-> <<"A","P","I"," ","k","e","y"," ","n","o","t"," ","v","a","l","i","d">>] }

\* what the backing store answers to an upload of a key
KeyExistsMsg == <<"T","h","e"," ","r","e","s","o","u","r","c","e"," ","a","l","r","e","a","d","y"," ","e","x","i","s","t","s">>
StorageErrorMsg == <<"S","e","r","v","e","r"," ","d","i","s","c","o","n","n","e","c","t","e","d">>
\* a failure that is no key-exists report, with a number in its text
TimeoutMsg == <<"T","i","m","e","o","u","t"," ","a","f","t","e","r"," ","4","0","9","0"," ","m","s">>
StoreErrors == {StorageErrorMsg}

BUCKET_NAME == <<"p","d","f","s">>
StorageBase == <<"h","t","t","p","s",":","/","/","s">>

get_public_url(name) == StorageBase \o <<"/">> \o BUCKET_NAME \o <<"/">> \o name

(***************************************************************************)
(* State.                                                                  *)
(*   docs   the documents collection: docs[id] is the record with _id = id *)
(*   blobs  the storage bucket: a function from object key to bytes        *)
(*   reqs   the calls of upload_pdfs in flight or answered; exc is what the *)
(*          last upload attempt raised (line 54 of storage_service.py)     *)
(*   tasks  the _process_and_update tasks made by asyncio.create_task      *)
(*   jobs   the process_document_job runs of a worker                      *)
(*   reads  the last call of a read route (documents.py, excel.py) and     *)
(*          what it answered                                               *)
(***************************************************************************)
VARIABLES docs, blobs, reqs, tasks, jobs, reads

vars == <<docs, blobs, reqs, tasks, jobs, reads>>

Reqs == 1..MaxRequests

Now == [k |-> "datetime"]

NoRead == [op |-> "none"]

IdleReq ==
  [pc |-> "idle", user |-> << >>, upload_list |-> << >>, i |-> 0,
   created |-> << >>, skipped_duplicates |-> << >>, skipped_invalid |-> << >>,
   attempt |-> 0, sleeps |-> << >>, exc |-> << >>, file_url |-> << >>,
   response |-> [kind |-> "none"]]

Init ==
  /\ docs = << >>
  /\ blobs = << >>
  /\ reqs = [r \in Reqs |-> IdleReq]
  /\ tasks = << >>
  /\ jobs = << >>
  /\ reads = NoRead

(***************************************************************************)
(* upload_pdfs (upload.py 510-621). A step runs from one await to the next.*)
(***************************************************************************)
\* line 559
stripped_name(file) == str_strip(file.filename)

\* (mutant) the extension is compared as written
has_pdf_extension_exact(file_name) == str_endswith(file_name, PdfExt)

\* line 561
has_pdf_extension(file_name) == str_endswith(str_lower(file_name), PdfExt)

\* lines 609-614
ok_response(q) ==
  [kind |-> "ok", documents |-> q.created,
   skipped_duplicates |-> q.skipped_duplicates,
   skipped_invalid |-> q.skipped_invalid]

\* lines 616-621 (and 531): the call ends with an HTTPException
error_response(status_code) == [kind |-> "error", status_code |-> status_code]

\* The for loop from file i up to its next await: files with a bad name are
\* skipped on the way (lines 558-563); after the last file the call returns.
RECURSIVE loop_from(_, _)
loop_from(q, i) ==
  IF i > Len(q.upload_list)
    THEN [q EXCEPT !.pc = "done", !.i = i, !.response = ok_response(q)]
  ELSE LET file_name == stripped_name(q.upload_list[i])
       IN  IF ~has_pdf_extension(file_name)
             THEN loop_from([q EXCEPT !.skipped_invalid =
                               Append(@, IF file_name = << >> THEN Unknown ELSE file_name)],
                            i + 1)
             ELSE [q EXCEPT !.pc = "read", !.i = i]

cur_name(q) == stripped_name(q.upload_list[q.i])

cur_bytes(q) == q.upload_list[q.i].content

\* line 579
file_path(q) == q.user \o <<"_">> \o cur_name(q)

\* lines 522-531, then the loop up to the first await
upload_pdfs(r, owners, batches) ==
  /\ reqs[r].pc = "idle"
  /\ \E user \in owners, upload_list \in batches :
       reqs' = [reqs EXCEPT ![r] =
                  IF Len(upload_list) = 0
                    THEN [IdleReq EXCEPT !.pc = "done", !.user = user,
                                         !.response = error_response(400)]
                    ELSE loop_from([IdleReq EXCEPT !.user = user,
                                                   !.upload_list = upload_list], 1)]
  /\ UNCHANGED <<docs, blobs, tasks, jobs, reads>>

\* (mutant) the payload is not tested for emptiness
upload_read_unchecked(r) ==
  /\ reqs[r].pc = "read"
  /\ reqs' = [reqs EXCEPT ![r] = [@ EXCEPT !.pc = "find_one"]]
  /\ UNCHANGED <<docs, blobs, tasks, jobs, reads>>

\* lines 565-568: the payload has been read
upload_read(r) ==
  /\ reqs[r].pc = "read"
  /\ reqs' = [reqs EXCEPT ![r] =
                IF Len(cur_bytes(@)) = 0
                  THEN loop_from([@ EXCEPT !.skipped_invalid = Append(@, cur_name(reqs[r]))],
                                 @.i + 1)
                  ELSE [@ EXCEPT !.pc = "find_one"]]
  /\ UNCHANGED <<docs, blobs, tasks, jobs, reads>>

\* (mutant) the pre-check finds nothing
existing_doc_never(user, file_name) == FALSE

\* the filter of line 571
existing_doc(user, file_name) ==
  \E d \in DOMAIN docs : docs[d]["user_id"] = user /\ docs[d]["file_name"] = file_name

\* lines 570-576: find_one answers, or raises (lines 619-621)
upload_find_one(r) ==
  /\ reqs[r].pc = "find_one"
  /\ \E db_ok \in BOOLEAN :
       reqs' = [reqs EXCEPT ![r] =
                  IF ~db_ok
                    THEN [@ EXCEPT !.pc = "done", !.response = error_response(500)]
                  ELSE IF existing_doc(@.user, cur_name(@))
                    THEN loop_from([@ EXCEPT !.skipped_duplicates = Append(@, cur_name(reqs[r]))],
                                   @.i + 1)
                  ELSE [@ EXCEPT !.pc = "upload", !.attempt = 0, !.sleeps = << >>,
                                 !.exc = << >>]]
  /\ UNCHANGED <<docs, blobs, tasks, jobs, reads>>

(***************************************************************************)
(* StorageService.upload_file and _sync_upload_with_retries                *)
(* (storage_service.py 48-62, 82-97), one attempt of the loop per step.    *)
(***************************************************************************)
upload_attempts == 3
upload_backoff_ms == 1000

\* What the bucket can answer to upload(name, bytes) followed by
\* get_public_url(name). An existing key is refused (no upsert); an error,
\* with one of the texts of `errors`, can come before or after the object
\* was stored.
StoreAnswers(name, errors) ==
  IF name \in DOMAIN blobs
    THEN { [stored |-> FALSE, raises |-> TRUE, msg |-> KeyExistsMsg, url |-> << >>] }
         \cup { [stored |-> FALSE, raises |-> TRUE, msg |-> m, url |-> << >>] :
                  m \in errors }
    ELSE { [stored |-> TRUE, raises |-> FALSE, msg |-> << >>, url |-> get_public_url(name)],
           [stored |-> TRUE, raises |-> FALSE, msg |-> << >>, url |-> << >>] }
         \cup { [stored |-> b, raises |-> TRUE, msg |-> m, url |-> << >>] :
                  b \in BOOLEAN, m \in errors }

\* (mutant) the backoff does not double
after_upload_attempt_flat(q, o) ==
  IF ~o.raises
    THEN IF Len(o.url) = 0
           THEN loop_from(q, q.i + 1)
           ELSE [q EXCEPT !.pc = "insert_one", !.file_url = o.url]
  ELSE IF _is_duplicate_error(o.msg)
    THEN loop_from([q EXCEPT !.skipped_duplicates = Append(@, cur_name(q))], q.i + 1)
  ELSE IF q.attempt < upload_attempts - 1
    THEN [q EXCEPT !.attempt = @ + 1, !.sleeps = Append(@, upload_backoff_ms)]
  ELSE [q EXCEPT !.pc = "done", !.response = error_response(500)]

\* (mutant) DuplicateFileError is not caught by the caller
after_upload_attempt_uncaught(q, o) ==
  IF ~o.raises
    THEN IF Len(o.url) = 0
           THEN loop_from(q, q.i + 1)
           ELSE [q EXCEPT !.pc = "insert_one", !.file_url = o.url]
  ELSE IF _is_duplicate_error(o.msg) \/ q.attempt >= upload_attempts - 1
    THEN [q EXCEPT !.pc = "done", !.response = error_response(500)]
  ELSE [q EXCEPT !.attempt = @ + 1,
                 !.sleeps = Append(@, upload_backoff_ms * Pow2(q.attempt))]

\* (mutant) a key-exists report is taken for a finished upload
after_upload_attempt_exists_ok(q, o) ==
  IF ~o.raises
    THEN IF Len(o.url) = 0
           THEN loop_from(q, q.i + 1)
           ELSE [q EXCEPT !.pc = "insert_one", !.file_url = o.url]
  ELSE IF _is_duplicate_error(o.msg)
    THEN [q EXCEPT !.pc = "insert_one", !.file_url = get_public_url(file_path(q))]
  ELSE IF q.attempt < upload_attempts - 1
    THEN [q EXCEPT !.attempt = @ + 1,
                   !.sleeps = Append(@, upload_backoff_ms * Pow2(q.attempt))]
  ELSE [q EXCEPT !.pc = "done", !.response = error_response(500)]

\* the request after attempt number q.attempt (from 0) got the answer o
after_upload_attempt(q, o) ==
  IF ~o.raises
    THEN \* upload.py 589-591: a falsy URL is logged and the file dropped
         IF Len(o.url) = 0
           THEN loop_from(q, q.i + 1)
           ELSE [q EXCEPT !.pc = "insert_one", !.file_url = o.url]
  ELSE IF _is_duplicate_error(o.msg)
    THEN \* DuplicateFileError: upload.py 585-587
         loop_from([q EXCEPT !.skipped_duplicates = Append(@, cur_name(q))], q.i + 1)
  ELSE IF q.attempt < upload_attempts - 1
    THEN [q EXCEPT !.attempt = @ + 1,
                   !.sleeps = Append(@, upload_backoff_ms * Pow2(q.attempt))]
  ELSE \* raise last_exc, HTTPException(500) of upload_file, re-raised at 616-617
       [q EXCEPT !.pc = "done", !.response = error_response(500)]

upload_attempt(r, errors) ==
  /\ reqs[r].pc = "upload"
  /\ \E o \in StoreAnswers(file_path(reqs[r]), errors) :
       /\ blobs' = IF o.stored
                     THEN (file_path(reqs[r]) :> cur_bytes(reqs[r])) @@ blobs
                     ELSE blobs
       /\ reqs' = [reqs EXCEPT ![r] =
                     [after_upload_attempt(reqs[r], o) EXCEPT !.exc = o.msg]]
  /\ UNCHANGED <<docs, tasks, jobs, reads>>

\* (mutant) the record is created with the default status of models.py
new_document_processing(q) ==
  [user_id |-> q.user, file_name |-> cur_name(q), file_url |-> q.file_url,
   status |-> "processing", created_at |-> Now]

\* (mutant) the record is created without its owner
new_document_unowned(q) ==
  [user_id |-> << >>, file_name |-> cur_name(q), file_url |-> q.file_url,
   status |-> "pending", created_at |-> Now]

\* lines 594-600
new_document(q) ==
  [user_id |-> q.user, file_name |-> cur_name(q), file_url |-> q.file_url,
   status |-> "pending", created_at |-> Now]

NoExtraction ==
  [pc |-> "none", attempt |-> 0, calls |-> 0, sleeps |-> << >>,
   errors |-> << >>, text |-> << >>, result |-> Absent, error |-> << >>]

NoUpdate == [status |-> "none"]

\* (mutant) the task is made already running
new_task_started(doc_id, file_bytes) ==
  [pc |-> "extract", doc_id |-> doc_id, file_bytes |-> file_bytes,
   e |-> extract_begin(file_bytes), update |-> NoUpdate]

\* asyncio.create_task(_process_and_update(doc_id, file_bytes)), line 607
new_task(doc_id, file_bytes) ==
  [pc |-> "created", doc_id |-> doc_id, file_bytes |-> file_bytes,
   e |-> NoExtraction, update |-> NoUpdate]

\* lines 601-607, then the loop up to the next await; insert_one may raise
upload_insert_one(r, max_docs) ==
  /\ reqs[r].pc = "insert_one"
  /\ Len(docs) < max_docs
  /\ \E db_ok \in BOOLEAN :
       IF db_ok
         THEN LET doc_id == Len(docs) + 1
                  q == reqs[r]
              IN  /\ docs' = Append(docs, new_document(q))
                  /\ tasks' = Append(tasks, new_task(doc_id, cur_bytes(q)))
                  /\ reqs' = [reqs EXCEPT ![r] =
                       loop_from([q EXCEPT !.created =
                                    Append(@, [document_id |-> doc_id,
                                               file_url |-> q.file_url,
                                               file_name |-> cur_name(q)])],
                                 q.i + 1)]
         ELSE /\ reqs' = [reqs EXCEPT ![r] =
                            [@ EXCEPT !.pc = "done", !.response = error_response(500)]]
              /\ UNCHANGED <<docs, tasks>>
  /\ UNCHANGED <<blobs, jobs, reads>>

(***************************************************************************)
(* _process_and_update (upload.py 538-556).                                *)
(***************************************************************************)
\* (mutant) the completion is written without its time
completed_update_undated(parsed) ==
  [status |-> "completed", extracted_json |-> parsed]

\* lines 541-545
completed_update(parsed) ==
  [status |-> "completed", extracted_json |-> parsed, parsed_at |-> Now]

\* lines 548-552
failed_update(msg) ==
  [status |-> "failed", error_message |-> Str(msg), parsed_at |-> Now]

\* update_one(filter, {"$set": update}) on the matched record
apply_set(doc, update) ==
  [f \in DOMAIN doc \cup DOMAIN update |->
     IF f \in DOMAIN update THEN update[f] ELSE doc[f]]

\* (mutant) a filter that matches every record
update_matches_any(d, task) == TRUE

\* the filter of line 554: {"_id": ObjectId(doc_id)}
update_matches(d, task) == d = task.doc_id

\* the coroutine has returned: its locals are gone
finished_task(task) ==
  [task EXCEPT !.pc = "done", !.e = NoExtraction, !.update = NoUpdate]

\* the task once extract_section_a has returned or raised
after_extract(task) ==
  IF task.e.pc = "returned"
    THEN [task EXCEPT !.pc = "update", !.update = completed_update(task.e.result)]
  ELSE IF task.e.pc = "raised"
    THEN [task EXCEPT !.pc = "update", !.update = failed_update(task.e.error)]
  ELSE [task EXCEPT !.pc = "extract"]

\* the task starts to run: extract_section_a up to its first await
task_start(t) ==
  /\ tasks[t].pc = "created"
  /\ tasks' = [tasks EXCEPT ![t] =
                 after_extract([tasks[t] EXCEPT !.e = extract_begin(tasks[t].file_bytes)])]
  /\ UNCHANGED <<docs, blobs, reqs, jobs, reads>>

\* the model call of asyncio.to_thread is over (lines 37-63)
task_generate_content(t, outcomes) ==
  /\ tasks[t].pc = "extract"
  /\ tasks[t].e.pc = "call"
  /\ \E outcome \in outcomes :
       tasks' = [tasks EXCEPT ![t] =
                   after_extract([tasks[t] EXCEPT !.e = extract_call(tasks[t].e, outcome)])]
  /\ UNCHANGED <<docs, blobs, reqs, jobs, reads>>

\* asyncio.sleep(backoff) is over (line 72)
task_sleep(t) ==
  /\ tasks[t].pc = "extract"
  /\ tasks[t].e.pc = "sleep"
  /\ tasks' = [tasks EXCEPT ![t] = [tasks[t] EXCEPT !.e = extract_wake(tasks[t].e)]]
  /\ UNCHANGED <<docs, blobs, reqs, jobs, reads>>

\* lines 553-556: the write succeeds, or raises and is only logged
task_update_one(t) ==
  /\ tasks[t].pc = "update"
  /\ \E db_ok \in BOOLEAN :
       docs' = IF db_ok
                 THEN [d \in DOMAIN docs |->
                         IF update_matches(d, tasks[t])
                           THEN apply_set(docs[d], tasks[t].update)
                           ELSE docs[d]]
                 ELSE docs
  /\ tasks' = [tasks EXCEPT ![t] = finished_task(tasks[t])]
  /\ UNCHANGED <<blobs, reqs, jobs, reads>>

\* the response has been sent: the connection can carry the next call
upload_respond(r) ==
  /\ reqs[r].pc = "done"
  /\ reqs' = [reqs EXCEPT ![r] = IdleReq]
  /\ UNCHANGED <<docs, blobs, tasks, jobs, reads>>

\* One client connection: its calls of upload_pdfs follow one another, and the
\* extraction tasks run concurrently with them.
Next ==
  \/ upload_pdfs(1, Owners, Batches)
  \/ upload_read(1)
  \/ upload_find_one(1)
  \/ upload_attempt(1, StoreErrors)
  \/ upload_insert_one(1, MaxDocs)
  \/ upload_respond(1)
  \/ \E t \in DOMAIN tasks : task_start(t)
  \/ \E t \in DOMAIN tasks : task_generate_content(t, FewOutcomes)
  \/ \E t \in DOMAIN tasks : task_sleep(t)
  \/ \E t \in DOMAIN tasks : task_update_one(t)

Spec == Init /\ [][Next]_vars

(***************************************************************************)
(* process_document_job and _update_doc (processing.py 11-59): the job of  *)
(* a queue worker. It runs in its own process; nothing in the application  *)
(* enqueues it, so only the worker specification has it.                   *)
(***************************************************************************)
\* file_url.split(sep)[1]: the text between the first and the second sep
split_second(s, sep) ==
  LET i == CHOOSE x \in 1..Len(s) :
             MatchAt(s, x, sep) /\ \A y \in 1..(x-1) : ~MatchAt(s, y, sep)
      rest == SubSeq(s, i + Len(sep), Len(s))
  IN  IF str_contains(rest, sep) /\ Len(sep) > 0
        THEN SubSeq(rest, 1, (CHOOSE x \in 1..Len(rest) :
               MatchAt(rest, x, sep) /\ \A y \in 1..(x-1) : ~MatchAt(rest, y, sep)) - 1)
        ELSE rest

\* lines 19-24: None when the URL has no bucket segment
job_path(file_url) ==
  LET sep == <<"/">> \o BUCKET_NAME \o <<"/">>
  IN  IF str_contains(file_url, sep) THEN split_second(file_url, sep) ELSE << >>

InvalidFileUrlMsg == <<"i","n","v","a","l","i","d","_","f","i","l","e","_","u","r","l">>
UnexpectedErrorMsg == <<"u","n","e","x","p","e","c","t","e","d","_","e","r","r","o","r">>
OtherUrl == <<"h","t","t","p","s",":","/","/","s","/","o","t","h","e","r","/","x">>

\* the updates of lines 28, 42, 46 and of line 49
job_failed_update(msg) ==
  [status |-> "failed", error |-> Str(msg), parsed_at |-> Now]

job_completed_update(parsed) ==
  [status |-> "completed", extracted_json |-> parsed, parsed_at |-> Now]

\* _update_doc: the filter is {"_id": ObjectId(document_id)}; a failure is logged
_update_doc(document_id, update, db_ok) ==
  IF db_ok
    THEN [d \in DOMAIN docs |->
            IF d = document_id THEN apply_set(docs[d], update) ELSE docs[d]]
    ELSE docs

\* a job is put on the queue for a record, with the URL the caller gives
job_enqueue(max_jobs) ==
  /\ Len(jobs) < max_jobs
  /\ \E d \in DOMAIN docs, user_id \in Owners :
     \E url \in {docs[d]["file_url"], OtherUrl} :
       jobs' = Append(jobs, [pc |-> "queued", document_id |-> d, file_url |-> url,
                             user_id |-> user_id, e |-> NoExtraction])
  /\ UNCHANGED <<docs, blobs, reqs, tasks, reads>>

\* lines 17-31, and extract_section_a up to the first model call
job_start(j) ==
  /\ jobs[j].pc = "queued"
  /\ LET path == job_path(jobs[j].file_url)
     IN  IF Len(path) = 0
           THEN /\ \E db_ok \in BOOLEAN :
                     docs' = _update_doc(jobs[j].document_id,
                                         job_failed_update(InvalidFileUrlMsg), db_ok)
                /\ jobs' = [jobs EXCEPT ![j] = [jobs[j] EXCEPT !.pc = "done"]]
           ELSE \E download_ok \in BOOLEAN :
                  IF download_ok /\ path \in DOMAIN blobs
                    THEN LET e == extract_begin(blobs[path])
                         IN  IF e.pc = "raised"
                               THEN /\ \E db_ok \in BOOLEAN :
                                         docs' = _update_doc(jobs[j].document_id,
                                                             job_failed_update(e.error), db_ok)
                                    /\ jobs' = [jobs EXCEPT ![j] = [jobs[j] EXCEPT !.pc = "done"]]
                               ELSE /\ jobs' = [jobs EXCEPT ![j] =
                                                  [jobs[j] EXCEPT !.pc = "extract", !.e = e]]
                                    /\ UNCHANGED docs
                    ELSE /\ \E db_ok \in BOOLEAN :
                              docs' = _update_doc(jobs[j].document_id,
                                                  job_failed_update(UnexpectedErrorMsg), db_ok)
                         /\ jobs' = [jobs EXCEPT ![j] = [jobs[j] EXCEPT !.pc = "done"]]
  /\ UNCHANGED <<blobs, reqs, tasks, reads>>

\* one model call of the job's extract_section_a; lines 40-43 and 49 when it ends
job_generate_content(j, outcomes) ==
  /\ jobs[j].pc = "extract"
  /\ jobs[j].e.pc = "call"
  /\ \E outcome \in outcomes :
       LET e == extract_call(jobs[j].e, outcome)
       IN  IF e.pc = "sleep"
             THEN /\ jobs' = [jobs EXCEPT ![j] = [jobs[j] EXCEPT !.e = e]]
                  /\ UNCHANGED docs
             ELSE /\ \E db_ok \in BOOLEAN :
                       docs' = _update_doc(jobs[j].document_id,
                                           IF e.pc = "returned"
                                             THEN job_completed_update(e.result)
                                             ELSE job_failed_update(e.error),
                                           db_ok)
                  /\ jobs' = [jobs EXCEPT ![j] =
                                [jobs[j] EXCEPT !.pc = "done", !.e = NoExtraction]]
  /\ UNCHANGED <<blobs, reqs, tasks, reads>>

job_sleep(j) ==
  /\ jobs[j].pc = "extract"
  /\ jobs[j].e.pc = "sleep"
  /\ jobs' = [jobs EXCEPT ![j] = [jobs[j] EXCEPT !.e = extract_wake(jobs[j].e)]]
  /\ UNCHANGED <<docs, blobs, reqs, tasks, reads>>

\* The application together with a queue worker that is given jobs.
NextWorker ==
  \/ upload_pdfs(1, {<<"u","1">>}, OneFileBatches)
  \/ upload_read(1)
  \/ upload_find_one(1)
  \/ upload_attempt(1, StoreErrors)
  \/ upload_insert_one(1, MaxExtractDocs)
  \/ upload_respond(1)
  \/ \E t \in DOMAIN tasks : task_start(t)
  \/ \E t \in DOMAIN tasks : task_generate_content(t, FewOutcomes)
  \/ \E t \in DOMAIN tasks : task_sleep(t)
  \/ \E t \in DOMAIN tasks : task_update_one(t)
  \/ job_enqueue(MaxJobs)
  \/ \E j \in DOMAIN jobs : job_start(j)
  \/ \E j \in DOMAIN jobs : job_generate_content(j, FewOutcomes)
  \/ \E j \in DOMAIN jobs : job_sleep(j)

SpecWorker == Init /\ [][NextWorker]_vars

\* The extraction pipeline: single-file calls, every kind of model outcome.
NextExtract ==
  \/ upload_pdfs(1, Owners, OneFileBatches)
  \/ upload_read(1)
  \/ upload_find_one(1)
  \/ upload_attempt(1, StoreErrors)
  \/ upload_insert_one(1, MaxExtractDocs)
  \/ upload_respond(1)
  \/ \E t \in DOMAIN tasks : task_start(t)
  \/ \E t \in DOMAIN tasks : task_generate_content(t, ModelOutcomes)
  \/ \E t \in DOMAIN tasks : task_sleep(t)
  \/ \E t \in DOMAIN tasks : task_update_one(t)

SpecExtract == Init /\ [][NextExtract]_vars

\* The tasks under the event loop's scheduling: a task that is ready runs, a
\* model call returns or fails, a sleep ends, the write returns or fails.
NextLive ==
  \/ upload_pdfs(1, Owners, OneFileBatches)
  \/ upload_read(1)
  \/ upload_find_one(1)
  \/ upload_attempt(1, StoreErrors)
  \/ upload_insert_one(1, MaxExtractDocs)
  \/ upload_respond(1)
  \/ \E t \in DOMAIN tasks : task_start(t)
  \/ \E t \in DOMAIN tasks : task_generate_content(t, FewOutcomes)
  \/ \E t \in DOMAIN tasks : task_sleep(t)
  \/ \E t \in DOMAIN tasks : task_update_one(t)

\* task t is inside asyncio.to_thread(generate_content): exactly when
\* task_generate_content(t, ...) is enabled
task_awaits_model(t) ==
  /\ t \in DOMAIN tasks
  /\ tasks[t].pc = "extract"
  /\ tasks[t].e.pc = "call"

\* Weak fairness of each step of each task; for the model call it is written
\* out with task_awaits_model as its enabling condition.
LiveFairness ==
  \A t \in 1..MaxExtractDocs :
    /\ WF_vars(t \in DOMAIN tasks /\ task_start(t))
    /\ \/ []<>(~task_awaits_model(t))
       \/ []<><<t \in DOMAIN tasks /\ task_generate_content(t, FewOutcomes)>>_vars
    /\ WF_vars(t \in DOMAIN tasks /\ task_sleep(t))
    /\ WF_vars(t \in DOMAIN tasks /\ task_update_one(t))

SpecLive == Init /\ [][NextLive]_vars /\ LiveFairness

(***************************************************************************)
(* The read routes (documents.py, excel.py). Each call is one step: the    *)
(* query and the answer built from what it found.                          *)
(***************************************************************************)
\* d.get(field): None when the record has no such field
doc_get(doc, field) == IF field \in DOMAIN doc THEN doc[field] ELSE JNull

HexDigits == <<"0","1","2","3","4","5","6","7","8","9","a","b","c","d","e","f">>

\* the value of each hexadecimal digit, in either case
hex_value ==
  [c \in {HexDigits[i] : i \in 1..16} \cup {char_upper(HexDigits[i]) : i \in 1..16} |->
     (CHOOSE i \in 1..16 : HexDigits[i] = char_lower(c)) - 1]

\* ObjectId(text) raises InvalidId unless text is 24 hexadecimal digits
oid_valid(text) == Len(text) = 24 /\ \A i \in 1..24 : text[i] \in DOMAIN hex_value

\* ObjectId(text): the 12 bytes the digits stand for
ObjectId(text) == [i \in 1..12 |-> 16 * hex_value[text[2 * i - 1]] + hex_value[text[2 * i]]]

\* str(oid): the bytes in lower-case hexadecimal
oid_str(oid) ==
  [i \in 1..24 |-> IF i % 2 = 1 THEN HexDigits[(oid[(i + 1) \div 2] \div 16) + 1]
                   ELSE HexDigits[(oid[i \div 2] % 16) + 1]]

\* the _id the store gave to the record docs[d] (upload.py 601-602)
inserted_id(d) == [i \in 1..12 |-> IF i = 12 THEN 9 + d ELSE 0]

\* (mutant) a query without the owner's id
owner_matches_any(d, user) == TRUE

\* "user_id": user["sub"] in the filter of each query
owner_matches(d, user) == docs[d]["user_id"] = user

\* (mutant) the ids of the request are not looked at
id_in_any(d, ids) == TRUE

\* "_id": {"$in": ids}
id_in(d, ids) == \E i \in 1..Len(ids) : ids[i] = inserted_id(d)

\* coll.find(filter): the matching records in the order of the store
find(matches(_)) == SelectSeq([d \in 1..Len(docs) |-> d], matches)

\* d["id"] = str(d["_id"]); del d["_id"]
with_id(d) ==
  [f \in DOMAIN docs[d] \cup {"id"} |->
     IF f = "id" THEN oid_str(inserted_id(d)) ELSE docs[d][f]]

\* documents.py 12-23
list_documents(owners) ==
  /\ \E user \in owners :
       LET found == find(LAMBDA d : owner_matches(d, user))
       IN  reads' = [op |-> "list_documents", user |-> user, found |-> found,
                     response |-> [kind |-> "ok",
                                   body |-> [i \in 1..Len(found) |-> with_id(found[i])]]]
  /\ UNCHANGED <<docs, blobs, reqs, tasks, jobs>>

\* documents.py 26-38; InvalidId is not caught
get_document(owners, ids) ==
  /\ \E user \in owners, doc_id \in ids :
       LET found == IF oid_valid(doc_id)
                      THEN find(LAMBDA d : inserted_id(d) = ObjectId(doc_id)
                                           /\ owner_matches(d, user))
                      ELSE << >>
       IN  reads' = [op |-> "get_document", user |-> user, doc_id |-> doc_id,
                     found |-> found,
                     response |-> IF ~oid_valid(doc_id)
                                    THEN [kind |-> "error", status_code |-> 500]
                                  ELSE IF Len(found) = 0
                                    THEN [kind |-> "ok", body |-> << >>]
                                  ELSE [kind |-> "ok", body |-> <<with_id(found[1])>>]]
  /\ UNCHANGED <<docs, blobs, reqs, tasks, jobs>>

NoRequest == [given |-> FALSE, document_ids |-> << >>]

\* documents.py 41-72; a missing body and an empty list ask for every record
documents_status(owners, requests) ==
  /\ \E user \in owners, request \in requests :
       LET document_ids == request.document_ids
           by_ids == request.given /\ Len(document_ids) > 0
           invalid == by_ids /\ \E i \in 1..Len(document_ids) : ~oid_valid(document_ids[i])
           ids == [i \in 1..Len(document_ids) |-> ObjectId(document_ids[i])]
           found == IF invalid THEN << >>
                    ELSE IF by_ids
                      THEN find(LAMBDA d : id_in(d, ids) /\ owner_matches(d, user))
                    ELSE find(LAMBDA d : owner_matches(d, user))
           \* lines 64-70
           status_item(d) ==
             [id |-> oid_str(inserted_id(d)),
              status |-> doc_get(docs[d], "status"),
              error_message |-> doc_get(docs[d], "error_message"),
              parsed_at |-> doc_get(docs[d], "parsed_at"),
              file_url |-> doc_get(docs[d], "file_url")]
       IN  reads' = [op |-> "documents_status", user |-> user, request |-> request,
                     found |-> found,
                     response |-> IF invalid
                                    THEN [kind |-> "error_object"]
                                    ELSE [kind |-> "ok",
                                          body |-> [i \in 1..Len(found) |-> status_item(found[i])]]]
  /\ UNCHANGED <<docs, blobs, reqs, tasks, jobs>>

\* line 36: the payloads in the order of the request, for the ids that are
\* keys of by_id
ordered_json_docs(document_ids, found) ==
  LET in_by_id(doc_id) == \E i \in 1..Len(found) : oid_str(inserted_id(found[i])) = doc_id
      by_id(doc_id) == docs[CHOOSE d \in 1..Len(docs) :
                              /\ \E i \in 1..Len(found) : found[i] = d
                              /\ oid_str(inserted_id(d)) = doc_id]["extracted_json"]
      kept == SelectSeq(document_ids, in_by_id)
  IN  [i \in 1..Len(kept) |-> by_id(kept[i])]

\* excel.py 14-50; what ExcelService.generate_excel raises is not caught
generate_excel(owners, id_lists) ==
  /\ \E user \in owners, document_ids \in id_lists :
       LET invalid == \E i \in 1..Len(document_ids) : ~oid_valid(document_ids[i])
           object_ids == [i \in 1..Len(document_ids) |-> ObjectId(document_ids[i])]
           \* the filter of lines 24-29
           found == IF invalid THEN << >>
                    ELSE find(LAMBDA d : /\ id_in(d, object_ids)
                                         /\ owner_matches(d, user)
                                         /\ docs[d]["status"] = "completed"
                                         /\ "extracted_json" \in DOMAIN docs[d]
                                         /\ docs[d]["extracted_json"] # JNull)
           json_docs == ordered_json_docs(document_ids, found)
           excel_file == ExcelService_generate_excel(json_docs)
       IN  reads' = [op |-> "generate_excel", user |-> user, document_ids |-> document_ids,
                     found |-> found,
                     response |-> IF Len(document_ids) = 0 \/ invalid
                                    THEN [kind |-> "error", status_code |-> 400]
                                  ELSE IF Len(json_docs) = 0
                                    THEN [kind |-> "error", status_code |-> 404]
                                  ELSE IF ~excel_file.ok
                                    THEN [kind |-> "error", status_code |-> 500]
                                  ELSE [kind |-> "ok", json_docs |-> json_docs,
                                        excel_file |-> excel_file]]
  /\ UNCHANGED <<docs, blobs, reqs, tasks, jobs>>

\* The ids a caller sends: of the first and of the second record, the first
\* in upper case, one that is no ObjectId, one of no record.
IdA == <<"0","0","0","0","0","0","0","0","0","0","0","0","0","0","0","0","0","0","0","0","0","0","0","a">>
IdB == <<"0","0","0","0","0","0","0","0","0","0","0","0","0","0","0","0","0","0","0","0","0","0","0","b">>
IdAUpper == <<"0","0","0","0","0","0","0","0","0","0","0","0","0","0","0","0","0","0","0","0","0","0","0","A">>
IdNone == <<"0","0","0","0","0","0","0","0","0","0","0","0","0","0","0","0","0","0","0","0","0","0","0","c">>
IdBad == <<"z">>

\* the bodies of a status call: none, or a list of ids
StatusRequests ==
  {NoRequest} \cup
  {[given |-> TRUE, document_ids |-> l] :
     l \in {<< >>, <<IdA>>, <<IdB, IdA>>, <<IdNone, IdA>>, <<IdA, IdBad>>}}

ExportIdLists ==
  {<< >>, <<IdA>>, <<IdB, IdA>>, <<IdA, IdB>>, <<IdAUpper>>, <<IdAUpper, IdB>>,
   <<IdA, IdBad>>, <<IdNone, IdA>>}

OtherFile == [filename |-> <<"b",".","p","d","f">>, content |-> Data]

\* what a model call does where the records are read: a document, or an
\* error that is not retried
ReadOutcomes == {
  [kind |-> "text", text |-> <<"{listing}">>],
  [kind |-> "error", msg |-> <<"A","P","I"," ","k","e","y"," ","n","o","t"," ","v","a","l","i","d">>] }

\* and where they are exported: more documents
ExportOutcomes == ReadOutcomes \cup {
  [kind |-> "text", text |-> <<"{holdings}">>],
  [kind |-> "text", text |-> <<"[]">>],
  [kind |-> "text", text |-> <<"null">>] }

MaxReadDocs == 2

\* the answer of the read call has been sent
read_respond ==
  /\ reads # NoRead
  /\ reads' = NoRead
  /\ UNCHANGED <<docs, blobs, reqs, tasks, jobs>>

\* the connection carries no call
connection_idle == reqs[1].pc = "idle" /\ reads = NoRead

\* The application with its read routes. One client connection: its calls,
\* uploads and reads, follow one another, and the extraction tasks run
\* concurrently with them.
NextRead ==
  \/ connection_idle /\ upload_pdfs(1, Owners, OneFileBatches)
  \/ upload_read(1)
  \/ upload_find_one(1)
  \/ upload_attempt(1, StoreErrors)
  \/ upload_insert_one(1, MaxReadDocs)
  \/ upload_respond(1)
  \/ \E t \in DOMAIN tasks : task_start(t)
  \/ \E t \in DOMAIN tasks : task_generate_content(t, ReadOutcomes)
  \/ \E t \in DOMAIN tasks : task_update_one(t)
  \/ connection_idle /\ list_documents(Owners)
  \/ connection_idle /\ get_document(Owners, {IdA, IdB, IdNone, IdBad})
  \/ connection_idle /\ documents_status(Owners, StatusRequests)
  \/ connection_idle /\ generate_excel(Owners, {<<IdB, IdA>>})
  \/ read_respond

SpecRead == Init /\ [][NextRead]_vars

\* One owner's two-file calls and the exports of both owners.
NextExport ==
  \/ connection_idle /\ upload_pdfs(1, {<<"u","1">>}, {<<ValidFile, OtherFile>>})
  \/ upload_read(1)
  \/ upload_find_one(1)
  \/ upload_attempt(1, StoreErrors)
  \/ upload_insert_one(1, MaxReadDocs)
  \/ upload_respond(1)
  \/ \E t \in DOMAIN tasks : task_start(t)
  \/ \E t \in DOMAIN tasks : task_generate_content(t, ExportOutcomes)
  \/ \E t \in DOMAIN tasks : task_update_one(t)
  \/ connection_idle /\ generate_excel(Owners, ExportIdLists)
  \/ read_respond

SpecExport == Init /\ [][NextExport]_vars

\* The uploads of one client against a bucket whose failures carry either of
\* two texts, neither of them a key-exists report.
NextStore ==
  \/ upload_pdfs(1, Owners, OneFileBatches)
  \/ upload_read(1)
  \/ upload_find_one(1)
  \/ upload_attempt(1, {StorageErrorMsg, TimeoutMsg})
  \/ upload_insert_one(1, MaxReadDocs)
  \/ upload_respond(1)
  \/ \E t \in DOMAIN tasks : task_start(t)
  \/ \E t \in DOMAIN tasks : task_generate_content(t, ReadOutcomes)
  \/ \E t \in DOMAIN tasks : task_update_one(t)

SpecStore == Init /\ [][NextStore]_vars

\* Several client connections: their calls of upload_pdfs run concurrently,
\* each step of a call being what the coroutine does between two awaits.
NextConcurrent ==
  \/ \E r \in Reqs : upload_pdfs(r, Owners, OneFileBatches)
  \/ \E r \in Reqs : upload_read(r)
  \/ \E r \in Reqs : upload_find_one(r)
  \/ \E r \in Reqs : upload_attempt(r, StoreErrors)
  \/ \E r \in Reqs : upload_insert_one(r, MaxDocs)
  \/ \E r \in Reqs : upload_respond(r)
  \/ \E t \in DOMAIN tasks : task_start(t)
  \/ \E t \in DOMAIN tasks : task_generate_content(t, ReadOutcomes)
  \/ \E t \in DOMAIN tasks : task_update_one(t)

SpecConcurrent == Init /\ [][NextConcurrent]_vars

(***************************************************************************)
(* Direct calls of the service functions, one call at a time: reads holds  *)
(* the call and what it returned.                                          *)
(***************************************************************************)
MaxListingWords == 2

\* the words a listing text is made of, joined by a comma and a space
ListingWords == {
  <<"N","S","E">>,
  <<"b","s","e">>,
  <<"L","S","E">>,
  <<"l","s","e">>,
  <<"B","o","m","b","a","y"," ","S","t","o","c","k"," ","E","x","c","h","a","n","g","e">>,
  <<"N","a","t","i","o","n","a","l"," ","S","t","o","c","k"," ","E","x","c","h","a","n","g","e"," ","o","f"," ","I","n","d","i","a"," ","L","i","m","i","t","e","d">>,
  <<"B","o","m","b","a","y">>,
  <<"I","n","t","e","r","n","a","t","i","o","n","a","l"," ","S","t","o","c","k"," ","E","x","c","h","a","n","g","e">>,
  <<"L","i","s","t","e","d"," ","o","n">>,
  <<"L","i","m","i","t","e","d">> }

ListingExample == <<"L","i","s","t","e","d"," ","o","n"," ","N","S","E"," ","L","i","m","i","t","e","d"," ","a","n","d"," ","B","o","m","b","a","y"," ","S","t","o","c","k"," ","E","x","c","h","a","n","g","e"," ","L","i","m","i","t","e","d",","," ","L","S","E">>

ListingTexts ==
  { str_join(<<",", " ">>, ws) :
      ws \in UNION { [1..n -> ListingWords] : n \in 0..MaxListingWords } }
  \cup { ListingExample, <<" ", " ">> }

\* a payload with the listing text, as a string or as the one element of a list
ListingPayloads ==
  { Dict(<< <<"entity_details", Dict(<< <<"stock_exchange_listing", v>> >>)>> >>) :
      v \in { Str(t) : t \in ListingTexts } \cup { List(<<Str(ListingExample)>>) } }

call_normalize_stock_exchange_listing(results) ==
  /\ reads = NoRead
  /\ \E result \in results :
       reads' = [op |-> "_normalize_stock_exchange_listing", result |-> result,
                 returned |-> _normalize_stock_exchange_listing(result)]
  /\ UNCHANGED <<docs, blobs, reqs, tasks, jobs>>

\* the payload the function returned is given to it once more
call_normalize_stock_exchange_listing_again ==
  /\ reads.op = "_normalize_stock_exchange_listing"
  /\ reads' = [op |-> "_normalize_stock_exchange_listing again",
               result |-> reads.returned,
               returned |-> _normalize_stock_exchange_listing(reads.returned)]
  /\ UNCHANGED <<docs, blobs, reqs, tasks, jobs>>

\* the type texts of a holding: keys of the table as they may be written,
\* texts for each of the rules that follow it, and texts for none
EntityTypes == {
  <<"A","s","s","o","c","i","a","t","e">>,
  <<" ","a","s","s","o","c","i","a","t","e"," ","c","o","m","p","a","n","y"," ">>,
  <<"J","O","I","N","T"," ","V","E","N","T","U","R","E">>,
  <<"S","u","b","s","i","d","i","a","r","y">>,
  <<"s","u","b","s","i","d","i","a","r","y"," ","c","o","m","p","a","n","y">>,
  <<"M","a","t","e","r","i","a","l"," ","W","h","o","l","l","y"," ","O","w","n","e","d"," ","S","u","b","s","i","d","i","a","r","y">>,
  <<"W","h","o","l","l","y"," ","O","w","n","e","d"," ","S","u","b","s","i","d","i","a","r","y">>,
  <<"H","o","l","d","i","n","g">>,
  <<" ","h","o","l","d","i","n","g">>,
  <<"I","n","t","e","r","m","e","d","i","a","r","y"," ","H","o","l","d","i","n","g">>,
  <<"U","l","t","i","m","a","t","e"," ","H","o","l","d","i","n","g">>,
  <<"S","t","e","p","-","D","o","w","n"," ","S","u","b","s","i","d","i","a","r","y">>,
  <<"W","h","o","l","l","y"," ","o","w","n","e","d"," ","a","r","m">>,
  <<"U","l","t","i","m","a","t","e"," ","h","o","l","d","i","n","g"," ","c","o">>,
  <<"H","o","l","d","i","n","g"," ","i","n","t","e","r","m","e","d","i","a","r","y">>,
  <<"A","s","s","o","c","i","a","t","e"," ","f","i","r","m">>,
  <<"J","o","i","n","t","-","V","e","n","t","u","r","e">>,
  <<"P","r","o","m","o","t","e","r"," ","H","o","l","d","i","n","g">>,
  <<"H","o","l","d","i","n","g"," ","C","o","m","p","a","n","y">>,
  <<"h","o","l","d","i","n","g"," ","c","o","m","p","a","n","y">>,
  <<"H","o","l","d","i","n","g"," ","s","u","b","s","i","d","i","a","r","y">>,
  <<"S","u","b","s","i","d","i","a","r","y"," ","o","f"," ","X">>,
  <<" ","T","r","u","s","t"," ">>,
  <<>>,
  <<" ">> }

call_map_group_entity_type(raws) ==
  /\ reads = NoRead
  /\ \E raw \in raws :
       reads' = [op |-> "map_group_entity_type", raw |-> raw,
                 returned |-> map_group_entity_type(raw)]
  /\ UNCHANGED <<docs, blobs, reqs, tasks, jobs>>

\* the holding lists and the risk sections of the payloads that are flattened:
\* holdings in and out of the order of their types, risks by category (the
\* keys not in the order of the categories) or as a flat list
HoldingLists == {
  << >>,
  <<Dict(<< <<"name", Str(<<"Z","e","d">>)>>, <<"type", Str(<<"S","u","b","s","i","d","i","a","r","y">>)>> >>)>>,
  <<Dict(<< <<"name", Str(<<"Z","e","d">>)>>, <<"type", Str(<<"S","u","b","s","i","d","i","a","r","y">>)>> >>),
    Dict(<< <<"name", Str(<<"W","i","m">>)>>, <<"type", Str(<<"S","u","b","s","i","d","i","a","r","y">>)>> >>)>>,
  <<Dict(<< <<"name", Str(<<"Y","o","n">>)>>, <<"type", Str(<<"A","s","s","o","c","i","a","t","e">>)>> >>),
    Dict(<< <<"name", Str(<<"Z","e","d">>)>>, <<"type", Str(<<"S","u","b","s","i","d","i","a","r","y">>)>> >>)>>,
  <<Dict(<< <<"name", Str(<<"Z","e","d">>)>>, <<"type", Str(<<"S","u","b","s","i","d","i","a","r","y">>)>> >>),
    Dict(<< <<"name", Str(<<"Y","o","n">>)>>, <<"type", Str(<<"A","s","s","o","c","i","a","t","e">>)>> >>),
    Dict(<< <<"name", Str(<<"X","a","n">>)>>, <<"type", Str(<<"J","o","i","n","t"," ","V","e","n","t","u","r","e">>)>> >>)>> }

RiskSections == {
  Absent,
  Dict(<< <<"environment", List(<<Dict(<< <<"material_issue", Str(<<"w","a","t","e","r">>)>> >>)>>)>> >>),
  Dict(<< <<"governance", List(<<Dict(<< <<"material_issue", Str(<<"e","t","h","i","c","s">>)>> >>)>>)>>,
          <<"environment", List(<<Dict(<< <<"material_issue", Str(<<"w","a","t","e","r">>)>> >>)>>)>>,
          <<"social", List(<<Dict(<< <<"material_issue", Str(<<"s","a","f","e","t","y">>)>> >>), Dict(<< <<"material_issue", Str(<<"p","a","y">>)>> >>)>>)>> >>),
  List(<<Dict(<< <<"material_issue", Str(<<"w","a","t","e","r">>)>> >>)>>),
  List(<<Dict(<< <<"environment", List(<<Dict(<< <<"material_issue", Str(<<"w","a","t","e","r">>)>> >>)>>)>> >>),
         Dict(<< <<"social", List(<<Dict(<< <<"material_issue", Str(<<"p","a","y">>)>> >>)>>)>> >>)>>) }

ExportPayloads ==
  { Dict(<< <<"entity_details",
              Dict(<< <<"cin", Str(<<"L","1">>)>>, <<"name", Str(<<"A","c","m","e">>)>>,
                      <<"sector", Str(<<"I","T">>)>> >>)>>,
            <<"holding_subsidiaries", List(hs)>> >>
          \o (IF rs = Absent THEN << >> ELSE << <<"material_risks_opportunities", rs>> >>)) :
      hs \in HoldingLists, rs \in RiskSections }

\* generate_excel, lines 354-358, for one payload: the base row and its rows
call_expand_all(payloads) ==
  /\ reads = NoRead
  /\ \E data \in payloads :
       LET base_row == build_base_row(data)
       IN  reads' = [op |-> "expand_all", data |-> data, base_row |-> base_row,
                     returned |-> expand_all(data, base_row)]
  /\ UNCHANGED <<docs, blobs, reqs, tasks, jobs>>

\* response texts: a document, bare or between an opening and a closing
\* fence as a model writes them
FenceOpeners == {
  Fence, Fence \o JsonTag \o <<"\n">>, Fence \o <<"J","S","O","N"," ">>,
  <<" ">> \o Fence \o JsonTag \o <<"\n">>, Fence \o <<"\n">>,
  Fence \o <<"p","y","t","h","o","n","\n">> }

FenceClosers == { Fence, <<"\n">> \o Fence, <<"\n">> \o Fence \o <<"\n">>, <<" ">> \o Fence \o <<" ">> }

ResponseDocs == {
  <<"{listing}">>, <<"null">>, <<"[]">>, <<"\"","o","k","\"">>,
  <<"\"">> \o Fence \o <<"\"">>, <<"\"","a"," ">> \o Fence \o <<" ","b","\"">>,
  <<"o","o","p","s">> }

ResponseTexts ==
  ResponseDocs
    \cup { open \o doc \o close : open \in FenceOpeners, doc \in ResponseDocs, close \in FenceClosers }
    \cup { <<"x"," ">> \o Fence \o <<"n","u","l","l">> \o Fence }

\* lines 57-58 of extract_section_a on their own
call_clean_gemini_response(texts) ==
  /\ reads = NoRead
  /\ \E text \in texts :
       reads' = [op |-> "_clean_gemini_response", text |-> text,
                 parsed |-> _parse_or_raw(text),
                 returned |-> _clean_gemini_response(_parse_or_raw(text))]
  /\ UNCHANGED <<docs, blobs, reqs, tasks, jobs>>

\* extract_section_a called on its own: up to its first model call, then one
\* step per model call and per sleep
call_extract_section_a(payloads) ==
  /\ reads = NoRead
  /\ \E file_bytes \in payloads :
       reads' = [op |-> "extract_section_a", file_bytes |-> file_bytes,
                 e |-> extract_begin(file_bytes)]
  /\ UNCHANGED <<docs, blobs, reqs, tasks, jobs>>

extract_generate_content(outcomes) ==
  /\ reads.op = "extract_section_a"
  /\ reads.e.pc = "call"
  /\ \E outcome \in outcomes : reads' = [reads EXCEPT !.e = extract_call(@, outcome)]
  /\ UNCHANGED <<docs, blobs, reqs, tasks, jobs>>

extract_sleep ==
  /\ reads.op = "extract_section_a"
  /\ reads.e.pc = "sleep"
  /\ reads' = [reads EXCEPT !.e = extract_wake(@)]
  /\ UNCHANGED <<docs, blobs, reqs, tasks, jobs>>

NextService ==
  \/ call_normalize_stock_exchange_listing(ListingPayloads)
  \/ call_normalize_stock_exchange_listing_again
  \/ call_extract_section_a({<< >>, Data})
  \/ extract_generate_content(FewOutcomes)
  \/ extract_sleep
  \/ call_clean_gemini_response(ResponseTexts)
  \/ call_map_group_entity_type({Str(t) : t \in EntityTypes} \cup {JNull})
  \/ call_expand_all(ExportPayloads)
  \/ read_respond

SpecService == Init /\ [][NextService]_vars

(***************************************************************************)
(* The claims.                                                             *)
(***************************************************************************)

\* C1: in every reachable state, whatever the model answered, a completed
\* record has a non-null extracted_json and a null error_message, and a record
\* that is not completed has a null (or absent) extracted_json.
C1_CompletedIffPayload ==
  \A d \in DOMAIN docs :
    /\ docs[d]["status"] = "completed" =>
         /\ doc_get(docs[d], "extracted_json") # JNull
         /\ doc_get(docs[d], "error_message") = JNull
    /\ docs[d]["status"] # "completed" =>
         doc_get(docs[d], "extracted_json") = JNull

\* C2: in every reachable state a failed record has a non-null error_message
\* and a null (or absent) extracted_json, and a record that is not failed has a
\* null (or absent) error_message, whichever background writer wrote it.
C2_FailedIffMessage ==
  \A d \in DOMAIN docs :
    /\ docs[d]["status"] = "failed" =>
         /\ doc_get(docs[d], "error_message") # JNull
         /\ doc_get(docs[d], "extracted_json") = JNull
    /\ docs[d]["status"] # "failed" =>
         doc_get(docs[d], "error_message") = JNull

\* C3: a record is created pending; a step changes a record only when the
\* record is pending, the step is the write of the one task scheduled for that
\* record, and the new status is completed or failed; so the status changes at
\* most once and the record is never modified after it.
C3_OneTaskPerRecord ==
  \A d \in DOMAIN docs :
    Cardinality({t \in DOMAIN tasks : tasks[t].doc_id = d}) = 1

C3_Step ==
  /\ \A d \in DOMAIN docs' : d \notin DOMAIN docs => docs'[d]["status"] = "pending"
  /\ \A d \in DOMAIN docs :
       docs'[d] # docs[d] =>
         /\ docs[d]["status"] = "pending"
         /\ docs'[d]["status"] \in {"completed", "failed"}
         /\ \E t \in DOMAIN tasks :
              /\ tasks[t].doc_id = d
              /\ tasks[t].pc = "update"
              /\ tasks'[t].pc = "done"
              /\ \A u \in DOMAIN tasks : u # t => tasks'[u] = tasks[u]

C4_OneRecordPerName ==
  \A d1, d2 \in DOMAIN docs :
    (docs[d1]["user_id"] = docs[d2]["user_id"]
       /\ docs[d1]["file_name"] = docs[d2]["file_name"]) => d1 = d2

C4_HasRecord(user, file_name) ==
  \E d \in DOMAIN docs :
    docs[d]["user_id"] = user /\ docs[d]["file_name"] = file_name

C4_Step ==
  \A r \in Reqs :
    (/\ reqs[r].pc = "find_one"
     /\ reqs'[r] # reqs[r]
     /\ reqs'[r].response.kind # "error"
     /\ C4_HasRecord(reqs[r].user, cur_name(reqs[r])))
    => /\ reqs'[r].skipped_duplicates =
            Append(reqs[r].skipped_duplicates, cur_name(reqs[r]))
       /\ reqs'[r].created = reqs[r].created
       /\ docs' = docs
       /\ blobs' = blobs
       /\ tasks' = tasks

C4_DuplicateSubmission == [](C4_OneRecordPerName) /\ [][C4_Step]_vars

\* a second submission of the name was answered with it in skippedDuplicate
C4_Witness ==
  /\ reqs[1].pc = "done"
  /\ reqs[1].response.kind = "ok"
  /\ reqs[1].upload_list = <<ValidFile>>
  /\ reqs[1].response.skipped_duplicates = <<stripped_name(ValidFile)>>
  /\ reqs[1].exc = << >>
  /\ Cardinality({d \in DOMAIN docs :
                    /\ docs[d]["user_id"] = reqs[1].user
                    /\ docs[d]["file_name"] = stripped_name(ValidFile)}) = 1

\* C5: when the last upload attempt of a file fails with a non-duplicate
\* error, submit does not fail: it goes on to the next file, and the file is in
\* none of accepted, skippedDuplicate, skippedInvalid.
C5_Step ==
  \A r \in Reqs :
    (/\ reqs[r].pc = "upload"
     /\ reqs[r].attempt = upload_attempts - 1
     /\ reqs'[r] # reqs[r]
     /\ reqs'[r].exc # << >>
     /\ ~_is_duplicate_error(reqs'[r].exc))
    => /\ reqs'[r].response.kind # "error"
       /\ reqs'[r].i > reqs[r].i
       /\ reqs'[r].created = reqs[r].created
       /\ reqs'[r].skipped_duplicates = reqs[r].skipped_duplicates

C5_UploadFailureSkipsFile == [][C5_Step]_vars

\* C6: when an upload attempt is answered with a key-exists error, the name
\* goes to skippedDuplicate, no record is created, no task is scheduled, and
\* submit goes on with the next file without failing.
C6_Step ==
  \A r \in Reqs :
    (/\ reqs[r].pc = "upload"
     /\ reqs'[r] # reqs[r]
     /\ _is_duplicate_error(reqs'[r].exc))
    => /\ reqs'[r].skipped_duplicates =
            Append(reqs[r].skipped_duplicates, cur_name(reqs[r]))
       /\ reqs'[r].created = reqs[r].created
       /\ docs' = docs
       /\ tasks' = tasks
       /\ reqs'[r].response.kind # "error"
       /\ reqs'[r].i > reqs[r].i
       /\ reqs'[r].pc \in {"read", "done"}

C6_UploadDuplicateSkipsFile == [][C6_Step]_vars

\* the upload of the first file was refused as a duplicate though the owner has
\* no record of it, and the call is reading the second file
C6_Witness ==
  /\ reqs[1].pc = "read"
  /\ reqs[1].i = 2
  /\ _is_duplicate_error(reqs[1].exc)
  /\ reqs[1].skipped_duplicates = <<stripped_name(reqs[1].upload_list[1])>>
  /\ ~C4_HasRecord(reqs[1].user, stripped_name(reqs[1].upload_list[1]))

\* C7: the files of the batch handled so far that have another extension
\* (compared without case) or no bytes are exactly the entries of
\* skippedInvalid, in order, and none of them is accepted or a duplicate; the
\* other files are processed.
C7_Invalid(file) ==
  LET n == str_strip(file.filename)
  IN  \/ Len(n) < 4
      \/ str_lower(SubSeq(n, Len(n) - 3, Len(n))) # <<".","p","d","f">>
      \/ Len(file.content) = 0

RECURSIVE C7_Expected(_, _)
C7_Expected(files, n) ==
  IF n = 0 THEN << >>
  ELSE IF C7_Invalid(files[n])
    THEN Append(C7_Expected(files, n - 1),
                IF str_strip(files[n].filename) = << >>
                  THEN <<"u","n","k","n","o","w","n">>
                  ELSE str_strip(files[n].filename))
    ELSE C7_Expected(files, n - 1)

C7_InvalidFilesSkipped ==
  \A r \in Reqs :
    LET q == reqs[r]
        handled == IF q.i = 0 THEN 0 ELSE q.i - 1
    IN  /\ q.skipped_invalid = C7_Expected(q.upload_list, handled)
        /\ Len(q.created) + Len(q.skipped_duplicates)
             <= handled - Len(q.skipped_invalid)

\* a batch of a file without bytes and a valid file: one skipped, one accepted
C7_Witness ==
  /\ reqs[1].pc = "done"
  /\ reqs[1].response.kind = "ok"
  /\ Len(reqs[1].upload_list) = 2
  /\ reqs[1].upload_list[2] = ValidFile
  /\ Len(reqs[1].response.skipped_invalid) = 1
  /\ Len(reqs[1].response.documents) = 1

\* C8 as claimed: when submit returns its classification, every record it
\* accepted is still pending.
C8_AllPendingStep ==
  \A r \in Reqs :
    (reqs[r].pc # "done" /\ reqs'[r].pc = "done" /\ reqs'[r].response.kind = "ok")
    => \A k \in 1..Len(reqs'[r].created) :
         docs'[reqs'[r].created[k].document_id]["status"] = "pending"

C8_AllPendingAtResponse == [][C8_AllPendingStep]_vars

\* C8 as amended: when submit returns its classification, the record accepted
\* in the step that returns (for the last file of the batch) is pending and its
\* task has not started; so is every record of a one-file batch.
C8_TaskOf(d) == CHOOSE t \in DOMAIN tasks' : tasks'[t].doc_id = d

C8_LastPendingStep ==
  \A r \in Reqs :
    (reqs[r].pc # "done" /\ reqs'[r].pc = "done" /\ reqs'[r].response.kind = "ok")
    => /\ Len(docs') > Len(docs) =>
            /\ docs'[Len(docs')]["status"] = "pending"
            /\ tasks'[C8_TaskOf(Len(docs'))].pc = "created"
       /\ Len(reqs'[r].upload_list) = 1 =>
            \A k \in 1..Len(reqs'[r].created) :
              /\ docs'[reqs'[r].created[k].document_id]["status"] = "pending"
              /\ tasks'[C8_TaskOf(reqs'[r].created[k].document_id)].pc = "created"

C8_LastAcceptedPendingAtResponse == [][C8_LastPendingStep]_vars

\* the response of a one-file call is out, the task of its record not started
C8_Witness ==
  /\ reqs[1].pc = "done"
  /\ reqs[1].response.kind = "ok"
  /\ Len(reqs[1].response.documents) = 1
  /\ docs[reqs[1].response.documents[1].document_id]["status"] = "pending"
  /\ \E t \in DOMAIN tasks :
       /\ tasks[t].doc_id = reqs[1].response.documents[1].document_id
       /\ tasks[t].pc = "created"

\* C9: an extraction whose every model call fails with a 503 error makes
\* exactly 3 calls and no more, ends with the error of the third call, and the
\* write of the task moves the record to failed with that description.
C9_Is503(msg) == str_contains(msg, <<"5","0","3">>)

C9_All503(e) ==
  /\ e.pc = "raised"
  /\ e.calls >= 1
  /\ \A k \in 1..Len(e.errors) : C9_Is503(e.errors[k])

C9_ThreeCalls ==
  \A t \in DOMAIN tasks :
    /\ tasks[t].e.calls <= 3
    /\ C9_All503(tasks[t].e) =>
         /\ tasks[t].e.calls = 3
         /\ Len(tasks[t].e.errors) = 3
         /\ tasks[t].e.error =
              <<"G","e","m","i","n","i"," ","e","x","t","r","a","c","t","i","o","n",
                " ","f","a","i","l","e","d",":"," ">> \o tasks[t].e.errors[3]

C9_WriteStep ==
  \A t \in DOMAIN tasks :
    (/\ C9_All503(tasks[t].e)
     /\ tasks'[t].pc = "done"
     /\ docs' # docs)
    => /\ docs'[tasks[t].doc_id]["status"] = "failed"
       /\ doc_get(docs'[tasks[t].doc_id], "error_message") = Str(tasks[t].e.error)

C9_TransientFailureCap == [](C9_ThreeCalls) /\ [][C9_WriteStep]_vars

\* three 503 answers in a row, the extraction has raised, the write is next
C9_Witness ==
  \E t \in DOMAIN tasks :
    /\ tasks[t].pc = "update"
    /\ C9_All503(tasks[t].e)
    /\ tasks[t].e.calls = 3
    /\ Len(tasks[t].e.sleeps) = 2

\* C10: an attempt is followed by another only if it failed with a
\* known-transient error and fewer than 3 attempts were made; a failure that is
\* not transient (the empty response included) on attempt k ends the
\* extraction after k calls, with k - 1 waits.
C10_Errors ==
  {o.msg : o \in {x \in ModelOutcomes : x.kind = "error"}} \cup {EmptyResponseMsg}

C10_Transient == {m \in C10_Errors : _is_retryable_error(m)}

C10_RetryOnlyTransient ==
  \A t \in DOMAIN tasks :
    LET e == tasks[t].e
    IN  /\ \A k \in 1..Len(e.errors) : e.errors[k] \in C10_Errors
        /\ e.pc = "sleep" =>
             /\ e.calls = e.attempt
             /\ e.attempt < 3
             /\ Len(e.errors) = e.calls
             /\ e.errors[e.calls] \in C10_Transient
        /\ e.pc \in {"call", "sleep"} =>
             \A k \in 1..Len(e.errors) : e.errors[k] \in C10_Transient
        /\ (e.pc = "raised" /\ e.calls >= 1) =>
             /\ Len(e.errors) = e.calls
             /\ Len(e.sleeps) = e.calls - 1
             /\ \A k \in 1..(e.calls - 1) : e.errors[k] \in C10_Transient
             /\ e.calls < 3 => e.errors[e.calls] \notin C10_Transient
        /\ e.pc = "returned" =>
             /\ Len(e.errors) = e.calls - 1
             /\ Len(e.sleeps) = e.calls - 1

\* the second call returned an empty response: two calls, one wait, raised
C10_Witness ==
  \E t \in DOMAIN tasks :
    /\ tasks[t].e.pc = "raised"
    /\ tasks[t].e.calls = 2
    /\ tasks[t].e.errors[2] = EmptyResponseMsg
    /\ EmptyResponseMsg \notin C10_Transient
    /\ Len(tasks[t].e.sleeps) = 1

\* C11: a scheduled task always finishes: under the fair scheduling of
\* SpecLive every task reaches its end, never after more than 3 model calls and
\* 2 sleeps, nothing takes a task back from its end, and a write that succeeds
\* leaves the record completed or failed.
C11_Bounded ==
  \A t \in DOMAIN tasks :
    /\ tasks[t].e.calls <= 3
    /\ Len(tasks[t].e.sleeps) <= 2

C11_Step ==
  \A t \in DOMAIN tasks :
    /\ tasks[t].pc = "done" => tasks'[t].pc = "done"
    /\ (tasks[t].pc = "update" /\ docs'[tasks[t].doc_id] # docs[tasks[t].doc_id]) =>
         /\ tasks'[t].pc = "done"
         /\ docs'[tasks[t].doc_id]["status"] \in {"completed", "failed"}

C11_TaskAlwaysFinishes ==
  /\ [](C11_Bounded)
  /\ [][C11_Step]_vars
  /\ \A d \in 1..MaxExtractDocs :
       (d \in DOMAIN tasks) ~> (d \in DOMAIN tasks /\ tasks[d].pc = "done")

\* a task has ended after three failed calls and its record is failed
C11_Witness ==
  \E t \in DOMAIN tasks :
    /\ tasks[t].pc = "done"
    /\ docs[tasks[t].doc_id]["status"] = "failed"
    /\ doc_get(docs[tasks[t].doc_id], "error_message") =
         Str(final_error(<<"5","0","3"," ","U","N","A","V","A","I","L","A","B","L","E">>))

\* C12: when the write of a task fails the task ends without another write and
\* without an effect on the calls in flight, and the record stays pending in
\* every later state.
C12_Step ==
  \A t \in DOMAIN tasks :
    LET d == tasks[t].doc_id
    IN  /\ (tasks[t].pc = "update" /\ tasks'[t] # tasks[t]
              /\ docs'[d]["status"] = "pending") =>
             /\ tasks'[t].pc = "done"
             /\ docs' = docs
             /\ reqs' = reqs
        /\ (tasks[t].pc = "done" /\ docs[d]["status"] = "pending") =>
             /\ tasks'[t] = tasks[t]
             /\ docs'[d] = docs[d]

C14_Step ==
  \A j \in DOMAIN jobs :
    LET d == jobs[j].document_id
    IN  (jobs'[j] # jobs[j] /\ docs'[d] # docs[d]) =>
          docs[d]["user_id"] = jobs[j].user_id

C14_OwnerScopedUpdates == [][C14_Step]_vars

\* C13: whatever ids and whichever route owner A uses, every record a read
\* call finds is a record of A, and what the call answers is made of the
\* records it found only: the listed records, the one record, the status
\* items and the exported payloads all come from records whose user_id is A.
C13_FoundIds == {oid_str(inserted_id(reads'.found[i])) : i \in 1..Len(reads'.found)}

C13_Step ==
  reads'.op # "none" /\ reads' # reads =>
    /\ \A i \in 1..Len(reads'.found) : docs[reads'.found[i]]["user_id"] = reads'.user
    /\ reads'.response.kind = "ok" /\ reads'.op # "generate_excel" =>
         /\ Len(reads'.response.body) = Len(reads'.found)
         /\ \A i \in 1..Len(reads'.response.body) :
              reads'.response.body[i]["id"] = oid_str(inserted_id(reads'.found[i]))
    /\ reads'.response.kind = "ok" /\ reads'.op \in {"list_documents", "get_document"} =>
         \A i \in 1..Len(reads'.response.body) :
           reads'.response.body[i]["user_id"] = reads'.user
    /\ reads'.response.kind = "ok" /\ reads'.op = "generate_excel" =>
         \A i \in 1..Len(reads'.response.json_docs) :
           \E j \in 1..Len(reads'.found) :
             reads'.response.json_docs[i] = docs[reads'.found[j]]["extracted_json"]

C13_ReadsOwnerScoped == [][C13_Step]_vars

\* a call answered while another owner had a record whose id the caller sent
C13_OtherOwnersRecord(d) ==
  /\ docs[d]["user_id"] # reads.user
  /\ docs[d]["status"] = "completed"

C13_Witness ==
  /\ Len(docs) = 2
  /\ reads # NoRead
  /\ C13_OtherOwnersRecord(2)
  /\ \/ reads.op = "generate_excel" /\ reads.document_ids = <<IdB, IdA>>
        /\ reads.response.kind = "ok"
     \/ reads.op = "get_document" /\ reads.doc_id = IdB
     \/ reads.op = "documents_status" /\ reads.request.document_ids = <<IdB, IdA>>

\* C15: a successful export is made of the payloads of the ids of the caller's
\* list, in the order of the list, that resolve to a record of the caller
\* that is completed with a non-null payload, and its rows are the rows of
\* these payloads one payload after the other; ids of pending or failed
\* records add nothing.
C15_Resolves(user, doc_id) ==
  /\ oid_valid(doc_id)
  /\ \E d \in DOMAIN docs :
       /\ inserted_id(d) = ObjectId(doc_id)
       /\ docs[d]["user_id"] = user
       /\ docs[d]["status"] = "completed"
       /\ docs[d]["extracted_json"] # JNull

C15_Payload(doc_id) ==
  docs[CHOOSE d \in DOMAIN docs : inserted_id(d) = ObjectId(doc_id)]["extracted_json"]

C15_Expected(user, document_ids) ==
  LET resolves(doc_id) == C15_Resolves(user, doc_id)
      kept == SelectSeq(document_ids, resolves)
  IN  [i \in 1..Len(kept) |-> C15_Payload(kept[i])]

RECURSIVE C15_RowsOf(_, _)
C15_RowsOf(payloads, i) ==
  IF i > Len(payloads) THEN << >>
  ELSE ExcelService_generate_excel(<<payloads[i]>>).rows \o C15_RowsOf(payloads, i + 1)

C15_Step ==
  /\ reads'.op = "generate_excel"
  /\ reads' # reads
  /\ reads'.response.kind = "ok"
  => /\ reads'.response.json_docs = C15_Expected(reads'.user, reads'.document_ids)
     /\ reads'.response.excel_file.rows
          = C15_RowsOf(C15_Expected(reads'.user, reads'.document_ids), 1)

C15_ExportInCallerOrder == [][C15_Step]_vars

\* C16: an export with an empty id list, with an id that cannot be parsed, or
\* with no id that resolves to a completed record of the caller with a
\* non-null payload is answered with a client error (a 4xx status) and no
\* spreadsheet; every other export is answered with the spreadsheet.
C16_ClientErrorCase(user, document_ids) ==
  \/ Len(document_ids) = 0
  \/ \E i \in 1..Len(document_ids) : ~oid_valid(document_ids[i])
  \/ \A i \in 1..Len(document_ids) : ~C15_Resolves(user, document_ids[i])

C16_Step ==
  reads'.op = "generate_excel" /\ reads' # reads =>
    IF C16_ClientErrorCase(reads'.user, reads'.document_ids)
      THEN /\ reads'.response.kind = "error"
           /\ reads'.response.status_code \in 400..499
      ELSE reads'.response.kind = "ok"

C16_ExportFailsOnlyOnClientErrors == [][C16_Step]_vars

\* the caller's records a status call is to answer with, in the order of the
\* store: all of them when no id is given, else those whose id is in the list
C17_Expected(user, request) ==
  LET ids == request.document_ids
      wanted(d) ==
        /\ docs[d]["user_id"] = user
        /\ request.given /\ Len(ids) > 0 =>
             \E i \in 1..Len(ids) : oid_valid(ids[i]) /\ ObjectId(ids[i]) = inserted_id(d)
  IN  SelectSeq([d \in 1..Len(docs) |-> d], wanted)

C17_Answers(response, expected) ==
  /\ response.kind = "ok"
  /\ Len(response.body) = Len(expected)
  /\ \A i \in 1..Len(expected) :
       /\ response.body[i].id = oid_str(inserted_id(expected[i]))
       /\ response.body[i].status = docs[expected[i]]["status"]

\* C17 as claimed: a status call answers with all the caller's records when
\* the id list is omitted or empty, and with exactly the caller's records
\* whose id is in the list when ids are given; an id that matches no record
\* of the caller is left out and never makes the call answer with an error.
C17_StepClaimed ==
  reads'.op = "documents_status" /\ reads' # reads =>
    C17_Answers(reads'.response, C17_Expected(reads'.user, reads'.request))

C17_UnmatchedIdsDropped == [][C17_StepClaimed]_vars

\* C17 as amended: the same, when every id given can be parsed; when one of
\* the ids given cannot be parsed the call answers with an error object and
\* no record.
C17_Unparseable(request) ==
  /\ request.given
  /\ \E i \in 1..Len(request.document_ids) : ~oid_valid(request.document_ids[i])

C17_Step ==
  reads'.op = "documents_status" /\ reads' # reads =>
    IF C17_Unparseable(reads'.request)
      THEN reads'.response.kind = "error_object"
      ELSE C17_Answers(reads'.response, C17_Expected(reads'.user, reads'.request))

C17_ParseableIdsDropped == [][C17_Step]_vars

\* a call with the id of another owner's record and the id of the caller's
\* own record was answered with the caller's record only
C17_Witness ==
  /\ reads.op = "documents_status"
  /\ reads.request.document_ids = <<IdB, IdA>>
  /\ Len(docs) = 2
  /\ docs[1]["user_id"] = reads.user
  /\ docs[2]["user_id"] # reads.user
  /\ reads.response.kind = "ok"
  /\ Len(reads.response.body) = 1

\* C18: a read of a record whose task has not yet written (the task is not
\* over) shows the record with status pending and with neither extracted_json
\* nor error_message, and no read, however often repeated, changes a record.
C18_Unwritten(d) == tasks[d].pc # "done"

C18_AsCreated(item) ==
  /\ item["status"] = "pending"
  /\ "extracted_json" \notin DOMAIN item
  /\ "error_message" \notin DOMAIN item

C18_Step ==
  reads'.op # "none" /\ reads' # reads =>
    /\ docs' = docs
    /\ reads'.op \in {"get_document", "list_documents"} /\ reads'.response.kind = "ok" =>
         \A i \in 1..Len(reads'.found) :
           C18_Unwritten(reads'.found[i]) => C18_AsCreated(reads'.response.body[i])

C18_ReadBeforeWriteIsPending == [][C18_Step]_vars

\* get_document has answered with a record whose task is still not over
C18_Witness ==
  /\ reads.op = "get_document"
  /\ Len(reads.found) = 1
  /\ C18_Unwritten(reads.found[1])
  /\ C18_AsCreated(reads.response.body[1])

\* C19: an upload is tried at most 3 times. A try that fails (with another
\* error than key-exists) on try 1 or 2 is followed by a sleep of 1 s, then
\* 2 s, and by another try; a try that succeeds gives the URL and ends the
\* upload; a failure of try 3 ends the call with the error, without a sleep
\* or a try more.
C19_Bounded ==
  reqs[1].pc = "upload" =>
    /\ reqs[1].attempt \in 0..2
    /\ reqs[1].sleeps = SubSeq(<<1000, 2000>>, 1, reqs[1].attempt)

C19_Step ==
  reqs[1].pc = "upload" /\ reqs' # reqs =>
    LET q == reqs[1]
        after == reqs'[1]
    IN  IF after.exc = << >>
          THEN \* the try succeeded
               /\ after.pc # "upload"
               /\ after.sleeps = q.sleeps
               /\ after.pc = "insert_one" => after.file_url = get_public_url(file_path(q))
        ELSE IF _is_duplicate_error(after.exc)
          THEN after.pc # "upload" /\ after.sleeps = q.sleeps
        ELSE IF q.attempt < 2
          THEN /\ after.pc = "upload"
               /\ after.attempt = q.attempt + 1
               /\ after.sleeps = Append(q.sleeps, IF q.attempt = 0 THEN 1000 ELSE 2000)
        ELSE /\ after.pc = "done"
             /\ after.response = error_response(500)
             /\ after.sleeps = q.sleeps
             /\ after.attempt = q.attempt

C20_RaisedDuplicate(q, after) ==
  after.skipped_duplicates = Append(q.skipped_duplicates, cur_name(q))

C20_Step ==
  reqs[1].pc = "upload" /\ reqs'[1] # reqs[1] =>
    LET q == reqs[1]
        after == reqs'[1]
    IN  /\ after.exc = KeyExistsMsg =>
             /\ C20_RaisedDuplicate(q, after)
             /\ after.pc # "upload"
             /\ after.attempt = q.attempt
             /\ after.sleeps = q.sleeps
             /\ blobs' = blobs
        /\ (after.exc # << >> /\ after.exc # KeyExistsMsg) =>
             ~C20_RaisedDuplicate(q, after)

C20_DuplicateOnlyOnKeyExists == [][C20_Step]_vars

\* C21: normalising the listing text "Listed on NSE Limited and Bombay Stock
\* Exchange Limited, LSE" gives "BSENSE LSE".
C21_Listing(payload) ==
  dict_get(dict_get(payload, "entity_details"), "stock_exchange_listing")

C21_ExampleGivesJoinedTokenAndLSE ==
  (/\ reads.op = "_normalize_stock_exchange_listing"
   /\ C21_Listing(reads.result) = Str(ListingExample))
  => C21_Listing(reads.returned) = Str(<<"B","S","E","N","S","E"," ","L","S","E">>)

\* C22: normalising "National Stock Exchange of India Limited" gives "NSE",
\* and a listing text of nothing but white space gives the empty string.
C22_LongForm == <<"N","a","t","i","o","n","a","l"," ","S","t","o","c","k"," ","E","x","c","h","a","n","g","e"," ","o","f"," ","I","n","d","i","a"," ","L","i","m","i","t","e","d">>

C22_SingleExchange ==
  (/\ reads.op = "_normalize_stock_exchange_listing"
   /\ C21_Listing(reads.result).k = "str")
  => /\ C21_Listing(reads.result).s = C22_LongForm
          => C21_Listing(reads.returned) = Str(NSE)
     /\ str_strip(C21_Listing(reads.result).s) = << >>
          => C21_Listing(reads.returned) = Str(<< >>)

\* C29: BSE and NSE are detected only as whole words or as the whole phrases
\* "bombay stock exchange" and "national stock exchange" (in any case); the
\* output starts with BSENSE when both are detected and with BSE or NSE when
\* one is, that token occurs once in the output, and no such token is in the
\* output when neither is detected.
C29_Detected(word, phrase, text) ==
  \/ re_search_word(word, str_lower(text))
  \/ re_search_word(phrase, str_lower(text))

C29_Canonical(text) ==
  LET bse == C29_Detected(<<"b","s","e">>, <<"b","o","m","b","a","y"," ","s","t","o","c","k"," ","e","x","c","h","a","n","g","e">>, text)
      nse == C29_Detected(<<"n","s","e">>, <<"n","a","t","i","o","n","a","l"," ","s","t","o","c","k"," ","e","x","c","h","a","n","g","e">>, text)
  IN  IF bse /\ nse THEN <<BSENSE>>
      ELSE IF bse THEN <<BSE>>
      ELSE IF nse THEN <<NSE>>
      ELSE << >>

C29_WholeWordDetection ==
  (/\ reads.op = "_normalize_stock_exchange_listing"
   /\ C21_Listing(reads.result).k = "str")
  => LET tokens == split_parts(C21_Listing(reads.returned).s, 1, << >>)
         canonical == C29_Canonical(C21_Listing(reads.result).s)
     IN  IF canonical = << >>
           THEN \A i \in 1..Len(tokens) : tokens[i] \notin {BSE, NSE, BSENSE}
           ELSE /\ Len(tokens) >= 1
                /\ tokens[1] = canonical[1]
                /\ Cardinality({i \in 1..Len(tokens) : tokens[i] = canonical[1]}) = 1

\* C25: the mapped type of a text is the table's value for the trimmed,
\* lower-cased text; otherwise the value of the first rule that matches,
\* in the order wholly owned, ultimate holding, intermediary holding,
\* associate, joint venture, holding, subsidiary, where a text that contains
\* "holding" matches the holding rule; otherwise the trimmed text.
C25_Rules == <<
  [needs |-> {<<"w","h","o","l","l","y"," ","o","w","n","e","d">>}, gives |-> <<"W","h","o","l","l","y"," ","O","w","n","e","d"," ","S","u","b","s","i","d","i","a","r","y">>],
  [needs |-> {<<"u","l","t","i","m","a","t","e"," ","h","o","l","d","i","n","g">>}, gives |-> <<"U","l","t","i","m","a","t","e"," ","H","o","l","d","i","n","g"," ","C","o","m","p","a","n","y">>],
  [needs |-> {<<"i","n","t","e","r","m","e","d","i","a","r","y">>, <<"h","o","l","d","i","n","g">>}, gives |-> <<"I","n","t","e","r","m","e","d","i","a","r","y"," ","H","o","l","d","i","n","g"," ","C","o","m","p","a","n","y">>],
  [needs |-> {<<"a","s","s","o","c","i","a","t","e">>}, gives |-> <<"A","s","s","o","c","i","a","t","e"," ","C","o","m","p","a","n","y">>],
  [needs |-> {<<"j","o","i","n","t">>, <<"v","e","n","t","u","r","e">>}, gives |-> <<"J","o","i","n","t"," ","V","e","n","t","u","r","e">>],
  [needs |-> {<<"h","o","l","d","i","n","g">>}, gives |-> <<"H","o","l","d","i","n","g"," ","C","o","m","p","a","n","y">>],
  [needs |-> {<<"s","u","b","s","i","d","i","a","r","y">>}, gives |-> <<"S","u","b","s","i","d","i","a","r","y"," ","C","o","m","p","a","n","y">>] >>

C25_Mapped(text) ==
  LET key == str_lower(str_strip(text))
      exact == {i \in 1..Len(group_entity_mapping) : group_entity_mapping[i][1] = key}
      rules == {i \in 1..Len(C25_Rules) :
                  \A part \in C25_Rules[i].needs : str_contains(key, part)}
  IN  IF exact # {} THEN group_entity_mapping[CHOOSE i \in exact : TRUE][2]
      ELSE IF rules # {} THEN C25_Rules[CHOOSE i \in rules : \A j \in rules : i <= j].gives
      ELSE str_strip(text)

C25_TypeMapping ==
  (reads.op = "map_group_entity_type" /\ reads.raw.k = "str")
  => reads.returned = Str(C25_Mapped(reads.raw.s))

\* C23: one payload (its risks given by category) is flattened into
\* n = max(1, number of holdings, number of risk items) rows; the first row
\* has every base field of the base row, every later row has the CIN and the
\* name of the first row and all its other base fields blank, and a row
\* past the last risk item has no risk field.
C23_Holdings(data) ==
  IF dict_has(data, "holding_subsidiaries")
    THEN dict_get(data, "holding_subsidiaries").xs ELSE << >>

C23_ByCategory(data) ==
  dict_has(data, "material_risks_opportunities")
    => dict_get(data, "material_risks_opportunities").k = "dict"

\* the risk items as <<category, item>>: the arrays of the three categories
\* one after the other
C23_RiskItems(data) ==
  LET risks == dict_get(data, "material_risks_opportunities")
      items(key, category) ==
        IF risks.k = "dict" /\ dict_has(risks, key)
          THEN [i \in 1..Len(dict_get(risks, key).xs) |->
                  <<category, dict_get(risks, key).xs[i]>>]
          ELSE << >>
  IN  items("environment", <<"E","n","v","i","r","o","n","m","e","n","t">>)
        \o items("social", <<"S","o","c","i","a","l">>)
        \o items("governance", <<"G","o","v","e","r","n","a","n","c","e">>)

C23_HoldingColumns ==
  {"23. Group Entity", "23. Group Entity Type", "23. Mapped Group Entity Type", "23. % Shares"}

C23_RiskColumns ==
  {"26. Category", "26. Material Issue", "26. Risk/Opportunity", "26. Rationale",
   "26. Financial Impact", "26. Approach to Adapt/Mitigate"}

C23_RowCount(data) ==
  LET h == Len(C23_Holdings(data))
      r == Len(C23_RiskItems(data))
  IN  IF h >= r /\ h >= 1 THEN h ELSE IF r >= 1 THEN r ELSE 1

C24_RowsCarry(holdings, data, rows) ==
  /\ Len(rows) = C23_RowCount(data)
  /\ \A i \in 1..Len(rows) :
       /\ IF i <= Len(holdings)
            THEN /\ dict_get(rows[i], "23. Group Entity") = dict_get(holdings[i], "name")
                 /\ dict_get(rows[i], "23. Group Entity Type") = dict_get(holdings[i], "type")
            ELSE i > 1 => \A col \in C23_HoldingColumns : dict_get(rows[i], col) = Str(<< >>)
       /\ i <= Len(C23_RiskItems(data)) =>
            /\ dict_get(rows[i], "26. Category") = Str(C23_RiskItems(data)[i][1])
            /\ dict_get(rows[i], "26. Material Issue") =
                 dict_get(C23_RiskItems(data)[i][2], "material_issue")

C24_HoldingsInInputOrder ==
  (reads.op = "expand_all" /\ C23_ByCategory(reads.data))
  => C24_RowsCarry(C23_Holdings(reads.data), reads.data, reads.returned.rows)

\* the holdings in ascending order of their type texts (compared character by
\* character), holdings of one type in the order of the payload
C24_ByType(holdings) ==
  LET n == Len(holdings)
      type(i) == dict_get(holdings[i], "type").s
      p == CHOOSE q \in [1..n -> 1..n] :
             /\ \A i, j \in 1..n : i # j => q[i] # q[j]
             /\ \A i, j \in 1..n :
                  i < j => /\ ~str_less(type(q[j]), type(q[i]))
                           /\ type(q[i]) = type(q[j]) => q[i] < q[j]
  IN  [i \in 1..n |-> holdings[p[i]]]

\* C24 (amended): row i has the i-th holding of the list sorted by type.
C24_HoldingsInTypeOrder ==
  (reads.op = "expand_all" /\ C23_ByCategory(reads.data))
  => C24_RowsCarry(C24_ByType(C23_Holdings(reads.data)), reads.data, reads.returned.rows)

\* three holdings whose types are not in order, and four risk items of three
\* categories, have been flattened
C24_Witness ==
  /\ reads.op = "expand_all"
  /\ C23_ByCategory(reads.data)
  /\ Len(C23_Holdings(reads.data)) = 3
  /\ C24_ByType(C23_Holdings(reads.data)) # C23_Holdings(reads.data)
  /\ Len(C23_RiskItems(reads.data)) = 4
  /\ Len(reads.returned.rows) = 4

\* C26: the step of upload_pdfs that puts a file in skippedInvalid, or in
\* skippedDuplicate after the pre-check, changes no record, no stored object
\* and no task, accepts nothing, and does not take that file to the upload;
\* the pre-check and the upload are reached by valid files only, so the file
\* the pre-check reports is never an invalid one.
C26_Routed(q, q2) ==
  \/ q.pc \in {"idle", "read"} /\ Len(q2.skipped_invalid) > Len(q.skipped_invalid)
  \/ q.pc = "find_one" /\ Len(q2.skipped_duplicates) > Len(q.skipped_duplicates)

C26_Step ==
  \A r \in Reqs :
    LET q == reqs[r]
        q2 == reqs'[r]
    IN  C26_Routed(q, q2)
        => /\ docs' = docs /\ blobs' = blobs /\ tasks' = tasks
           /\ q2.created = q.created
           /\ q2.pc \in {"upload", "insert_one"} => q2.i > q.i
           /\ q.pc \in {"idle", "read"} => q2.skipped_duplicates = q.skipped_duplicates
           /\ q.pc = "read" =>
                /\ C7_Invalid(q.upload_list[q.i])
                /\ SubSeq(q2.skipped_invalid, 1, Len(q.skipped_invalid) + 1) =
                     Append(q.skipped_invalid, str_strip(q.upload_list[q.i].filename))
           /\ q.pc = "find_one" =>
                /\ ~C7_Invalid(q.upload_list[q.i])
                /\ q2.skipped_duplicates =
                     Append(q.skipped_duplicates, str_strip(q.upload_list[q.i].filename))

C26_ValidBeforeDuplicateCheck ==
  \A r \in Reqs :
    reqs[r].pc \in {"find_one", "upload", "insert_one"}
      => ~C7_Invalid(reqs[r].upload_list[reqs[r].i])

C26_SkippedFilesTouchNothing ==
  []C26_ValidBeforeDuplicateCheck /\ [][C26_Step]_vars

\* a batch of a file the owner already has and of a file without bytes has
\* been answered: one duplicate by the pre-check, one invalid, nothing new
C26_Witness ==
  /\ reqs[1].pc = "done"
  /\ reqs[1].response.kind = "ok"
  /\ Len(reqs[1].upload_list) = 2
  /\ reqs[1].upload_list[1] = ValidFile
  /\ Len(reqs[1].upload_list[2].content) = 0
  /\ reqs[1].exc = << >>
  /\ Len(reqs[1].response.skipped_duplicates) = 1
  /\ Len(reqs[1].response.skipped_invalid) = 1
  /\ reqs[1].response.documents = << >>
  /\ Len(docs) = 1

\* C27: when the text a model call returned cannot be parsed, as it is or with
\* its fences removed, extract_section_a has returned on that call (no error
\* raised for it, no call and no sleep after it) the cleaned text under the
\* key raw_response, and the task's write makes the record completed with
\* that object as its payload.
C27_Cleaned(text) == str_strip(sub_trailing_fence(sub_leading_fences(text, 1)))

C27_Unparseable(text) ==
  /\ Len(text) > 0
  /\ str_strip(text) \notin {<<doc>> : doc \in DOMAIN JsonDocs}
  /\ C27_Cleaned(text) \notin {<<doc>> : doc \in DOMAIN JsonDocs}

C27_Wrapper(text) == Dict(<< <<"raw_response", Str(C27_Cleaned(text))>> >>)

C27_Returned ==
  \A t \in DOMAIN tasks :
    LET e == tasks[t].e
    IN  C27_Unparseable(e.text)
        => /\ e.pc = "returned"
           /\ e.result = C27_Wrapper(e.text)
           /\ e.error = << >>
           /\ e.calls = e.attempt
           /\ Len(e.errors) = e.calls - 1
           /\ Len(e.sleeps) = e.calls - 1
           /\ tasks[t].pc = "update"
           /\ tasks[t].update["status"] = "completed"
           /\ tasks[t].update["extracted_json"] = C27_Wrapper(e.text)

C27_WriteStep ==
  \A t \in DOMAIN tasks :
    (/\ C27_Unparseable(tasks[t].e.text)
     /\ tasks'[t] # tasks[t])
    => /\ tasks'[t].pc = "done"
       /\ docs'[tasks[t].doc_id] # docs[tasks[t].doc_id] =>
            /\ docs'[tasks[t].doc_id]["status"] = "completed"
            /\ docs'[tasks[t].doc_id]["extracted_json"] = C27_Wrapper(tasks[t].e.text)
            /\ "error_message" \notin DOMAIN docs'[tasks[t].doc_id]

C27_UnparseableResponseIsWrapped == []C27_Returned /\ [][C27_WriteStep]_vars

\* the second call returned a fenced text that is no JSON document: the task
\* is about to write the unfenced text, wrapped
C27_Witness ==
  \E t \in DOMAIN tasks :
    /\ tasks[t].e.pc = "returned"
    /\ tasks[t].e.calls = 2
    /\ tasks[t].e.text # C27_Cleaned(tasks[t].e.text)
    /\ tasks[t].e.result = Dict(<< <<"raw_response", Str(<<"o","o","p","s">>)>> >>)
    /\ tasks[t].update["status"] = "completed"

\* C28: a text made of an opening fence (with or without a language tag), a
\* JSON document and a closing fence, white space around them, is cleaned to
\* the value of the document alone; a text that is a JSON document as it
\* stands is returned as json.loads gives it.
C28_Valid(doc) == json_loads(doc).ok

C28_Value(doc) == json_loads(doc).v

C28_FencedParsesAsUnfenced ==
  reads.op = "_clean_gemini_response"
  => /\ \A open \in FenceOpeners, close \in FenceClosers, doc \in ResponseDocs :
          (C28_Valid(doc) /\ reads.text = open \o doc \o close)
            => reads.returned = C28_Value(doc)
     /\ C28_Valid(reads.text) => reads.returned = C28_Value(reads.text)

\* the same for the texts whose tag, if any, is json and whose document has
\* no fence in it
C28_PlainDocs == {doc \in ResponseDocs : \A i \in 1..Len(doc) : doc[i] # Backquote}

C28_JsonOpeners == {open \in FenceOpeners : ~str_contains(open, <<"p","y","t","h","o","n">>)}

C28_PlainFencedParsesAsUnfenced ==
  reads.op = "_clean_gemini_response"
  => /\ \A open \in C28_JsonOpeners, close \in FenceClosers, doc \in C28_PlainDocs :
          (C28_Valid(doc) /\ reads.text = open \o doc \o close)
            => reads.returned = C28_Value(doc)
     /\ C28_Valid(reads.text) => reads.returned = C28_Value(reads.text)

\* C30: extract_section_a called with no bytes has raised the empty-input
\* error at once: no model call was made and no backoff slept, and none
\* follows.
C30_EmptyBytesFailFast ==
  (reads.op = "extract_section_a" /\ Len(reads.file_bytes) = 0)
  => /\ reads.e.pc = "raised"
     /\ reads.e.error = <<"E","m","p","t","y"," ","P","D","F"," ","b","y","t","e","s"," ","p","r","o","v","i","d","e","d">>
     /\ reads.e.calls = 0
     /\ reads.e.sleeps = << >>
     /\ reads.e.errors = << >>
     /\ reads.e.result = Absent
     /\ reads.e.pc \notin {"call", "sleep"}

C30_Witness ==
  /\ reads.op = "extract_section_a"
  /\ reads.file_bytes = << >>
  /\ reads.e.pc = "raised"
  /\ reads.e.calls = 0

\* C37: the normalisation applied to a payload it has returned leaves the
\* listing field as it is.
C37_Field(payload) ==
  dict_get(dict_get(payload, "entity_details"), "stock_exchange_listing")

C37_Idempotent ==
  reads.op = "_normalize_stock_exchange_listing again"
  => C37_Field(reads.returned) = C37_Field(reads.result)

\* the same for the listings without the word Bombay
C37_IdempotentWithoutBombay ==
  (/\ reads.op = "_normalize_stock_exchange_listing again"
   /\ ~str_contains(C37_Field(reads.result).s, <<"B","O","M","B","A","Y">>))
  => C37_Field(reads.returned) = C37_Field(reads.result)

\* C35: every risk item of the payload, given by category in an object or in
\* a flat list of per-category objects or of items, is in exactly one of
\* the rows, and as many rows have a risk item as the payload has risk items.
C35_CategoryKeys == {"environment", "social", "governance"}

\* the risk items of one element of the flat list
C35_ItemsOf(el) ==
  IF \E key \in C35_CategoryKeys : dict_has(el, key)
    THEN C23_RiskItems([items |-> << <<"material_risks_opportunities", el>> >>, k |-> "dict"])
    ELSE << <<"", el>> >>

RECURSIVE C35_ListItems(_, _)
C35_ListItems(els, n) ==
  IF n = 0 THEN << >> ELSE C35_ListItems(els, n - 1) \o C35_ItemsOf(els[n])

C35_RiskItems(data) ==
  IF ~dict_has(data, "material_risks_opportunities") THEN << >>
  ELSE IF dict_get(data, "material_risks_opportunities").k = "list"
    THEN C35_ListItems(dict_get(data, "material_risks_opportunities").xs,
                       Len(dict_get(data, "material_risks_opportunities").xs))
    ELSE C23_RiskItems(data)

C35_RowsOf(rows, item) ==
  {i \in 1..Len(rows) :
     /\ dict_has(rows[i], "26. Material Issue")
     /\ dict_get(rows[i], "26. Material Issue") = dict_get(item, "material_issue")}

C35_EachRiskItemOnce ==
  reads.op = "expand_all"
  => LET rows == reads.returned.rows
         items == C35_RiskItems(reads.data)
     IN  /\ reads.returned.ok
         /\ Cardinality({i \in 1..Len(rows) : dict_has(rows[i], "26. Category")}) = Len(items)
         /\ \A n \in 1..Len(items) : Cardinality(C35_RowsOf(rows, items[n][2])) = 1

\* the same for the payloads whose flat list holds no bare item
C35_EachCategorisedItemOnce ==
  (/\ reads.op = "expand_all"
   /\ \A n \in 1..Len(C35_RiskItems(reads.data)) : C35_RiskItems(reads.data)[n][1] # "")
  => LET rows == reads.returned.rows
         items == C35_RiskItems(reads.data)
     IN  /\ reads.returned.ok
         /\ Cardinality({i \in 1..Len(rows) : dict_has(rows[i], "26. Category")}) = Len(items)
         /\ \A n \in 1..Len(items) : Cardinality(C35_RowsOf(rows, items[n][2])) = 1

\* C36: a record has parsed_at exactly when its status is completed or
\* failed, and the write that makes a record completed or failed is the
\* write that sets parsed_at.
C36_Terminal(doc) == doc["status"] \in {"completed", "failed"}

C36_Dated(doc) == "parsed_at" \in DOMAIN doc

C36_DatedIffTerminal ==
  \A d \in DOMAIN docs : C36_Dated(docs[d]) <=> C36_Terminal(docs[d])

C36_Step ==
  \A d \in DOMAIN docs :
    docs'[d] # docs[d]
    => /\ C36_Terminal(docs'[d]) /\ C36_Dated(docs'[d])
       /\ ~C36_Terminal(docs[d]) => ~C36_Dated(docs[d])

C36_ParsedAtWithTerminalStatus == []C36_DatedIffTerminal /\ [][C36_Step]_vars

\* a record has been completed by the write of its task
C36_Witness ==
  \E t \in DOMAIN tasks :
    /\ tasks[t].pc = "done"
    /\ docs[tasks[t].doc_id]["status"] = "completed"
    /\ C36_Dated(docs[tasks[t].doc_id])
    /\ "extracted_json" \in DOMAIN docs[tasks[t].doc_id]

\* C34: when upload_pdfs answers with its lists, every accepted entry names a
\* record of the caller with the entry's file name and URL, the ids are
\* distinct, each has exactly one task, and the three lists together have
\* at most one entry per file of the batch; every step of the call adds as
\* many records and tasks as it adds accepted entries, and at most one entry
\* per file it has dealt with.
C34_Handled(q) == IF q.i = 0 THEN 0 ELSE q.i - 1

C34_Listed(q) == Len(q.created) + Len(q.skipped_duplicates) + Len(q.skipped_invalid)

C34_Answer ==
  \A r \in Reqs :
    LET q == reqs[r]
    IN  (q.pc = "done" /\ q.response.kind = "ok")
        => LET accepted == q.response.documents
           IN  /\ accepted = q.created
               /\ \A k \in 1..Len(accepted) :
                    /\ accepted[k].document_id \in DOMAIN docs
                    /\ docs[accepted[k].document_id]["user_id"] = q.user
                    /\ docs[accepted[k].document_id]["file_name"] = accepted[k].file_name
                    /\ docs[accepted[k].document_id]["file_url"] = accepted[k].file_url
                    /\ Cardinality({t \in DOMAIN tasks :
                                      tasks[t].doc_id = accepted[k].document_id}) = 1
               /\ \A k1, k2 \in 1..Len(accepted) :
                    k1 # k2 => accepted[k1].document_id # accepted[k2].document_id
               /\ C34_Listed(q) <= Len(q.upload_list)
               /\ q.response.skipped_duplicates = q.skipped_duplicates
               /\ q.response.skipped_invalid = q.skipped_invalid

C34_Step ==
  \A r \in Reqs :
    LET q == reqs[r]
        q2 == reqs'[r]
    IN  (q2 # q /\ q.pc # "done")
        => /\ Len(docs') - Len(docs) = Len(q2.created) - Len(q.created)
           /\ Len(tasks') - Len(tasks) = Len(q2.created) - Len(q.created)
           /\ Len(q2.created) - Len(q.created) \in {0, 1}
           /\ C34_Listed(q2) - C34_Listed(q) <= C34_Handled(q2) - C34_Handled(q)

C34_AnswerMatchesStore == []C34_Answer /\ [][C34_Step]_vars

\* a batch of the same valid file twice has been answered: the first is
\* accepted, the second is a duplicate of it
C34_Witness ==
  /\ reqs[1].pc = "done"
  /\ reqs[1].response.kind = "ok"
  /\ reqs[1].upload_list = <<ValidFile, ValidFile>>
  /\ Len(reqs[1].response.documents) = 1
  /\ Len(reqs[1].response.skipped_duplicates) = 1
  /\ Len(docs) = 1

\* C32: the step in which upload_pdfs ends with an error leaves the records,
\* the stored objects and the tasks as they are, and the call has until
\* then accepted no file and stored no object that is still without its
\* record.
C32_Fails(q, q2) == q.pc # "done" /\ q2.pc = "done" /\ q2.response.kind = "error"

C32_Step ==
  \A r \in Reqs :
    C32_Fails(reqs[r], reqs'[r])
    => /\ docs' = docs /\ blobs' = blobs /\ tasks' = tasks
       /\ reqs[r].created = << >>
       /\ reqs[r].pc # "insert_one"

C32_ErrorLeavesStoresUnchanged == [][C32_Step]_vars

\* the same for the call that fails before its first upload
C32_EarlyStep ==
  \A r \in Reqs :
    (/\ C32_Fails(reqs[r], reqs'[r])
     /\ reqs[r].pc \in {"idle", "find_one"}
     /\ reqs[r].created = << >>)
    => docs' = docs /\ blobs' = blobs /\ tasks' = tasks

C32_EarlyErrorLeavesStoresUnchanged == [][C32_EarlyStep]_vars

\* C33: when upload_pdfs answers, each name of its skipped_duplicates is the
\* file name of a record of the caller.
C33_HasRecord(user, file_name) ==
  \E d \in DOMAIN docs :
    docs[d]["user_id"] = user /\ docs[d]["file_name"] = file_name

C33_ReportedDuplicateHasRecord ==
  \A r \in Reqs :
    LET q == reqs[r]
    IN  (q.pc = "done" /\ q.response.kind = "ok")
        => \A k \in 1..Len(q.response.skipped_duplicates) :
             C33_HasRecord(q.user, q.response.skipped_duplicates[k])

\* the same for the names the pre-check has put in the list
C33_PreCheckStep ==
  \A r \in Reqs :
    (/\ reqs[r].pc = "find_one"
     /\ Len(reqs'[r].skipped_duplicates) > Len(reqs[r].skipped_duplicates))
    => C33_HasRecord(reqs[r].user,
                     reqs'[r].skipped_duplicates[Len(reqs'[r].skipped_duplicates)])

C33_PreCheckDuplicateHasRecord == [][C33_PreCheckStep]_vars

\* C31: however the steps of concurrent calls of upload_pdfs, of one owner or
\* of several, are interleaved, no two records have the same owner and the
\* same file name.
C31_NoTwoRecordsOfOneName ==
  \A d1, d2 \in DOMAIN docs :
    d1 # d2 => \/ docs[d1]["user_id"] # docs[d2]["user_id"]
               \/ docs[d1]["file_name"] # docs[d2]["file_name"]

\* two calls of one owner with the same file were both past the pre-check
\* before either had uploaded: one is accepted, the store refuses the other
C31_Witness ==
  /\ reqs[1].user = reqs[2].user
  /\ reqs[1].upload_list = reqs[2].upload_list
  /\ reqs[1].pc = "done" /\ Len(reqs[1].created) = 1
  /\ reqs[2].pc = "done" /\ reqs[2].skipped_duplicates = <<stripped_name(ValidFile)>>
  /\ _is_duplicate_error(reqs[2].exc)
  /\ Cardinality({d \in DOMAIN docs : docs[d]["user_id"] = reqs[1].user}) = 1

====
